---- MODULE Spec2Model ----
(***************************************************************************)
(* State-machine model of src/main.py: the main loop of the top-down       *)
(* driving prototype (player, car, wandering NPCs, buildings, camera,      *)
(* objective marker, enter/exit possession, input-sequence boost).         *)
(*                                                                         *)
(* Number representation.  The program computes in IEEE-754 binary64 and   *)
(* so does the model: a double is the tuple <<s, e, hi, lo>> that stands   *)
(* for s * (hi * 2^26 + lo) * 2^e, with sign s in {-1, 1}, hi in           *)
(* [2^26, 2^27) and lo in [0, 2^26) (a significand of 53 bits in two       *)
(* words), and <<0, 0, 0, 0>> for zero.  Every operation rounds its exact  *)
(* result to the nearest double, ties to even, as the hardware does.       *)
(* Infinities, NaN, subnormal numbers and the sign of zero do not occur in *)
(* the program's arithmetic and are left out.  math.sin and math.cos are   *)
(* the C library's, which does not round correctly in every case: they are *)
(* modelled by the algorithm of glibc 2.36 for x86-64 with fused           *)
(* multiply-add (sysdeps/ieee754/dbl-64/s_sin.c), table and coefficients   *)
(* included.  pygame.Rect holds integers: assigning a float centre         *)
(* truncates it toward zero.                                               *)
(*                                                                         *)
(* The arithmetic is written as TLA+ functions, f[x \in S]: TLC evaluates  *)
(* the argument of a function once, where it would evaluate an operator's  *)
(* argument again at every use.  For the same reason a local variable of   *)
(* the program that is read more than once is bound as the argument of a   *)
(* function written in place, [v \in S |-> ...][e], under the name it has  *)
(* in the source.  The methods and blocks of the program are operators.    *)
(***************************************************************************)
EXTENDS Integers, Sequences, FiniteSets, TLC

VARIABLES
    buildings,        \* main: list of Building rects, fixed after start-up
    player,           \* Player: pos, speed, in_car
    car,              \* Car: pos, vel, angle, driver
    npcs,             \* list of NPC: pos, speed, dir, timer
    marker_pos,       \* main: marker_pos
    cam,              \* Camera.pos
    dt,               \* main: dt of the current tick, in seconds
    keys,             \* main: keys held (pygame.key.get_pressed) this tick
    e_pressed,        \* main: e_pressed
    konami_progress,  \* main: konami_progress
    konami_active,    \* main: konami_active
    pc,               \* position of the main loop inside the current tick
    nev,              \* KEYDOWN events taken from the queue in this tick
    ticks             \* completed iterations of the main loop

vars == <<buildings, player, car, npcs, marker_pos, cam, dt, keys, e_pressed,
          konami_progress, konami_active, pc, nev, ticks>>

(***************************************************************************)
(* Bounds of the exploration                                               *)
(***************************************************************************)
MaxTicks == 3
MaxEvents == 1
\* KEYDOWN events per tick in the scenario about repeated interact presses
MaxInteractEvents == 2
\* KEYDOWN events per tick in the scenario about the input sequence
MaxKonamiEvents == 11
NumNPCs == 1

(***************************************************************************)
(* Floating point: binary64 arithmetic                                     *)
(***************************************************************************)
B13 == 8192
B26 == 67108864
B27 == 134217728
B28 == 268435456

TwoTo == [k \in 0..30 |-> 2^k]

Zero == <<0, 0, 0, 0>>

\* the doubles <<s, e, hi, lo>>
Double == {-1, 0, 1} \X Int \X (0 .. B27 - 1) \X (0 .. B26 - 1)

\* number of bits of n, 0 <= n < 2^31
BitLen[n \in Nat] ==
    IF n >= 65536 THEN 16 + BitLen[n \div 65536]
    ELSE IF n >= 256 THEN 8 + BitLen[n \div 256]
    ELSE IF n >= 16 THEN 4 + BitLen[n \div 16]
    ELSE IF n >= 4 THEN 2 + BitLen[n \div 4]
    ELSE IF n >= 2 THEN 2 ELSE n

\* rounding to nearest, ties to even, of a 53-bit significand with the bits
\* below it summarised by rnd (the next bit) and sticky (any later bit)
Pack[s \in Int, e \in Int, hi \in Int, lo \in Int, rnd \in BOOLEAN, sticky \in BOOLEAN] ==
    LET up  == rnd /\ (sticky \/ (lo % 2) = 1)
        lo1 == IF up THEN lo + 1 ELSE lo
        hi1 == IF lo1 = B26 THEN hi + 1 ELSE hi
    IN  IF hi1 = B27 THEN <<s, e + 1, B26, 0>>
        ELSE <<s, e, hi1, IF lo1 = B26 THEN 0 ELSE lo1>>

\* a 56-bit extended significand H * 2^28 + L in [2^55, 2^56), exponent e of
\* its last bit, sticky for bits lost earlier
RoundExt[s \in Int, e \in Int, H \in Int, L \in Int, sticky \in BOOLEAN] ==
    Pack[s, e + 3, H \div 2, (H % 2) * 33554432 + L \div 8,
         ((L \div 4) % 2) = 1, sticky \/ (L % 4) # 0]

\* float(n): s is the sign of n and a its magnitude, of bl bits
FromInt[n \in Int] ==
    IF n = 0 THEN Zero
    ELSE [s \in Int, a \in Nat, bl \in Nat |->
            IF bl <= 27
            THEN <<s, bl - 53, a * TwoTo[27 - bl], 0>>
            ELSE <<s, bl - 53, a \div TwoTo[bl - 27], (a % TwoTo[bl - 27]) * TwoTo[53 - bl]>>
         ][IF n < 0 THEN -1 ELSE 1, IF n < 0 THEN -n ELSE n, BitLen[IF n < 0 THEN -n ELSE n]]

\* int(x): the whole part, toward zero (|x| < 2^31)
Trunc[x \in Double] ==
    IF x[1] = 0 \/ x[2] <= -53 THEN 0
    ELSE IF x[2] <= -26 THEN x[1] * (x[3] \div TwoTo[-x[2] - 26])
    ELSE x[1] * (x[3] * TwoTo[26 + x[2]] + x[4] \div TwoTo[-x[2]])

FNeg[x \in Double] == <<-x[1], x[2], x[3], x[4]>>
FAbs[x \in Double] == <<IF x[1] = 0 THEN 0 ELSE 1, x[2], x[3], x[4]>>
Half[x \in Double] == IF x[1] = 0 THEN x ELSE <<x[1], x[2] - 1, x[3], x[4]>>

\* |x| < |y|
MagLess[x \in Double, y \in Double] ==
    IF x[1] = 0 THEN y[1] # 0
    ELSE IF y[1] = 0 THEN FALSE
    ELSE \/ x[2] < y[2]
         \/ x[2] = y[2] /\ (x[3] < y[3] \/ (x[3] = y[3] /\ x[4] < y[4]))

\* x < y and x <= y
FLess[x \in Double, y \in Double] ==
    IF x[1] # y[1] THEN x[1] < y[1]
    ELSE IF x[1] = 1 THEN MagLess[x, y]
    ELSE IF x[1] = -1 THEN MagLess[y, x]
    ELSE FALSE

FLessEq[x \in Double, y \in Double] == ~FLess[y, x]

\* min(x, y) and max(x, y) as Python computes them
FMin[x \in Double, y \in Double] == IF FLess[y, x] THEN y ELSE x
FMax[x \in Double, y \in Double] == IF FLess[x, y] THEN y ELSE x

\* a significand in four limbs of 13 bits (the first has 14)
Limbs[x \in Double] == <<x[3] \div B13, x[3] % B13, x[4] \div B13, x[4] % B13>>

\* the carries of the column sums m (lowest column first) propagated: every
\* column but the last is brought below 2^13
Carried[m \in Seq(Int), c \in Int] ==
    IF Len(m) = 1 THEN <<m[1] + c>>
    ELSE <<(m[1] + c) % B13>> \o Carried[Tail(m), (m[1] + c) \div B13]

\* the seven columns of the product of two significands in limbs of 13 bits,
\* carries propagated; column 7 holds everything from bit 78 up
Columns[x \in Double, y \in Double] ==
    [a \in Seq(Int), b \in Seq(Int) |->
       Carried[<<a[4] * b[4],
                 a[4] * b[3] + a[3] * b[4],
                 a[4] * b[2] + a[3] * b[3] + a[2] * b[4],
                 a[4] * b[1] + a[3] * b[2] + a[2] * b[3] + a[1] * b[4],
                 a[3] * b[1] + a[2] * b[2] + a[1] * b[3],
                 a[2] * b[1] + a[1] * b[2],
                 a[1] * b[1]>>, 0]
    ][Limbs[x], Limbs[y]]

\* x * y: the columns c of the product rounded, e the exponent of bit 52 of
\* the columns
FMul[x \in Double, y \in Double] ==
    IF x[1] = 0 \/ y[1] = 0 THEN Zero
    ELSE [s \in Int, e \in Int, c \in Seq(Int) |->
            LET low == c[1] # 0 \/ c[2] # 0 \/ c[3] # 0
                tlo == c[6] * B13 + c[5]
            IN  IF c[7] < B27
                THEN Pack[s, e, c[7], tlo, c[4] >= 4096, (c[4] % 4096) # 0 \/ low]
                ELSE Pack[s, e + 1, c[7] \div 2, (c[7] % 2) * 33554432 + tlo \div 2,
                          (tlo % 2) = 1, c[4] # 0 \/ low]
         ][x[1] * y[1], x[2] + y[2] + 52, Columns[x, y]]

\* H * 2^28 + L shifted right by d bits, a lost 1 kept in the last bit
ShiftR[H \in Int, L \in Int, d \in Nat] ==
    IF d = 0 THEN <<H, L>>
    ELSE IF d < 28
    THEN LET p  == TwoTo[d]
             l0 == L \div p + (H % p) * TwoTo[28 - d]
         IN  <<H \div p, IF (L % p) # 0 /\ (l0 % 2) = 0 THEN l0 + 1 ELSE l0>>
    ELSE IF d < 56
    THEN LET p  == TwoTo[d - 28]
             l0 == H \div p
         IN  <<0, IF ((H % p) # 0 \/ L # 0) /\ (l0 % 2) = 0 THEN l0 + 1 ELSE l0>>
    ELSE <<0, 1>>

\* H * 2^28 + L (below 2^56) shifted left by k bits
ShiftL[H \in Int, L \in Int, k \in Nat] ==
    IF k = 0 THEN <<H, L>>
    ELSE IF k < 28
    THEN <<H * TwoTo[k] + L \div TwoTo[28 - k], (L % TwoTo[28 - k]) * TwoTo[k]>>
    ELSE <<L * TwoTo[k - 28], 0>>

\* the sum (same signs) or difference (opposite signs) of the extended
\* significands XH * 2^28 + XL and Y[1] * 2^28 + Y[2], the second not above
\* the first
AddAligned[sx \in Int, sy \in Int, e \in Int, XH \in Int, XL \in Int, Y \in Seq(Int)] ==
    IF sx = sy
    THEN LET H == XH + Y[1] + (XL + Y[2]) \div B28
             L == (XL + Y[2]) % B28
         IN  IF H >= B28
             THEN RoundExt[sx, e + 1, H \div 2, (H % 2) * 134217728 + L \div 2, (L % 2) = 1]
             ELSE RoundExt[sx, e, H, L, FALSE]
    ELSE LET H == XH - Y[1] - (IF XL < Y[2] THEN 1 ELSE 0)
             L == (XL - Y[2]) % B28
             k == IF H > 0 THEN 28 - BitLen[H] ELSE 56 - BitLen[L]
         IN  IF H = 0 /\ L = 0 THEN Zero
             ELSE [S \in Seq(Int) |-> RoundExt[sx, e - k, S[1], S[2], FALSE]][ShiftL[H, L, k]]

\* x + y and x - y: the sum of u and v, the greater and the lesser of x and y
\* in magnitude
FAdd[x \in Double, y \in Double] ==
    IF y[1] = 0 THEN x
    ELSE IF x[1] = 0 THEN y
    ELSE [u \in Double, v \in Double |->
            AddAligned[u[1], v[1], u[2] - 3,
                       2 * u[3] + (8 * u[4]) \div B28, (8 * u[4]) % B28,
                       ShiftR[2 * v[3] + (8 * v[4]) \div B28, (8 * v[4]) % B28, u[2] - v[2]]]
         ][IF MagLess[x, y] THEN y ELSE x, IF MagLess[x, y] THEN x ELSE y]

FSub[x \in Double, y \in Double] == FAdd[x, FNeg[y]]

\* a number of four words of 28 bits shifted right by ws words: the words,
\* and 1 if a non-zero word was lost, else 0
WordsRight[w \in Seq(Int), ws \in Nat] ==
    IF ws = 0 THEN <<w[1], w[2], w[3], w[4], 0>>
    ELSE IF ws = 1 THEN <<0, w[1], w[2], w[3], IF w[4] # 0 THEN 1 ELSE 0>>
    ELSE IF ws = 2 THEN <<0, 0, w[1], w[2], IF w[4] # 0 \/ w[3] # 0 THEN 1 ELSE 0>>
    ELSE IF ws = 3
    THEN <<0, 0, 0, w[1], IF w[4] # 0 \/ w[3] # 0 \/ w[2] # 0 THEN 1 ELSE 0>>
    ELSE <<0, 0, 0, 0, IF w[4] # 0 \/ w[3] # 0 \/ w[2] # 0 \/ w[1] # 0 THEN 1 ELSE 0>>

\* a number of four words of 28 bits shifted right by d bits, a lost 1 kept
\* in the last bit: by whole words (u, with the flag u[5] of a lost 1), then
\* by b < 28 bits
ShiftR4[w \in Seq(Int), d \in Nat] ==
    [u \in Seq(Int), b \in Nat |->
       LET p  == TwoTo[b]
           q  == TwoTo[28 - b]
           v0 == u[4] \div p + (u[3] % p) * q
       IN  <<u[1] \div p,
             u[2] \div p + (u[1] % p) * q,
             u[3] \div p + (u[2] % p) * q,
             IF (u[5] = 1 \/ (u[4] % p) # 0) /\ (v0 % 2) = 0 THEN v0 + 1 ELSE v0>>
    ][WordsRight[w, d \div 28], d % 28]

\* four words shifted left by ws words
WordsLeft[w \in Seq(Int), ws \in Nat] ==
    IF ws = 0 THEN w
    ELSE IF ws = 1 THEN <<w[2], w[3], w[4], 0>>
    ELSE IF ws = 2 THEN <<w[3], w[4], 0, 0>>
    ELSE <<w[4], 0, 0, 0>>

\* four words shifted left by k bits, no bit leaving at the top: by whole
\* words (u), then by b < 28 bits
ShiftL4[w \in Seq(Int), k \in Nat] ==
    [u \in Seq(Int), b \in Nat |->
       LET p == TwoTo[b]
           q == TwoTo[28 - b]
       IN  <<(u[1] % q) * p + u[2] \div q,
             (u[2] % q) * p + u[3] \div q,
             (u[3] % q) * p + u[4] \div q,
             (u[4] % q) * p>>
    ][WordsLeft[w, k \div 28], k % 28]

\* number of bits of a number of four words
BitLen4W[w \in Seq(Int)] ==
    IF w[1] # 0 THEN 84 + BitLen[w[1]]
    ELSE IF w[2] # 0 THEN 56 + BitLen[w[2]]
    ELSE IF w[3] # 0 THEN 28 + BitLen[w[3]]
    ELSE BitLen[w[4]]

\* w < v for numbers of four words
Less4W[w \in Seq(Int), v \in Seq(Int)] ==
    \/ w[1] < v[1]
    \/ w[1] = v[1] /\ (\/ w[2] < v[2]
                       \/ w[2] = v[2] /\ (\/ w[3] < v[3]
                                          \/ w[3] = v[3] /\ w[4] < v[4]))

\* a non-zero number w of four words, exponent e of its last bit, as a
\* double: w has bl bits; n is w with its first bit moved to bit 111
Round4W[s \in Int, e \in Int, w \in Seq(Int)] ==
    [bl \in Nat |->
       [n \in Seq(Int) |->
          Pack[s, e + bl - 53, n[1] \div 2, (n[1] % 2) * 33554432 + n[2] \div 8,
               ((n[2] \div 4) % 2) = 1, (n[2] % 4) # 0 \/ n[3] # 0 \/ n[4] # 0]
       ][ShiftL4[w, 112 - bl]]
    ][BitLen4W[w]]

\* a + b and a - b (a >= b) for numbers of four words; the first word of a
\* sum may pass 2^28
Sum4W[a \in Seq(Int), b \in Seq(Int)] ==
    LET t0 == a[4] + b[4]
        t1 == a[3] + b[3] + t0 \div B28
        t2 == a[2] + b[2] + t1 \div B28
    IN  <<a[1] + b[1] + t2 \div B28, t2 % B28, t1 % B28, t0 % B28>>

Diff4W[a \in Seq(Int), b \in Seq(Int)] ==
    LET t0 == a[4] - b[4]
        t1 == a[3] - b[3] + t0 \div B28
        t2 == a[2] - b[2] + t1 \div B28
    IN  <<a[1] - b[1] + t2 \div B28, t2 % B28, t1 % B28, t0 % B28>>

\* sp * A + sz * B for numbers A, B of four words with the exponent e: the
\* first word of the sum w may have passed 2^28 (by one bit)
FMASum[sp \in Int, sz \in Int, e \in Int, A \in Seq(Int), B \in Seq(Int)] ==
    IF sp # sz /\ A = B THEN Zero
    ELSE [w \in Seq(Int) |->
            Round4W[IF sp # sz /\ Less4W[A, B] THEN sz ELSE sp,
                    IF w[1] >= B28 THEN e + 1 ELSE e,
                    ShiftR4[w, IF w[1] >= B28 THEN 1 ELSE 0]]
         ][IF sp = sz THEN Sum4W[A, B]
           ELSE IF Less4W[A, B] THEN Diff4W[B, A] ELSE Diff4W[A, B]]

\* x * y + z with one rounding (fused multiply-add): c the columns of the
\* product, P the product times 2^6 in four words, Z the significand of z
FMA[x \in Double, y \in Double, z \in Double] ==
    IF x[1] = 0 \/ y[1] = 0 THEN z
    ELSE IF z[1] = 0 THEN FMul[x, y]
    ELSE [P \in Seq(Int) |->
            LET sp == x[1] * y[1]
                ep == x[2] + y[2] - 6
                ez == z[2] - 59
                Z  == <<2 * z[3] + z[4] \div 33554432, (z[4] % 33554432) * 8, 0, 0>>
            IN  IF ep >= ez
                THEN FMASum[sp, z[1], ep, P, ShiftR4[Z, ep - ez]]
                ELSE FMASum[sp, z[1], ez, ShiftR4[P, ez - ep], Z]
         ][[c \in Seq(Int) |->
              <<c[7],
                c[6] * 32768 + c[5] * 4 + c[4] \div 2048,
                (c[4] % 2048) * 131072 + c[3] * 16 + c[2] \div 512,
                (c[2] % 512) * 524288 + c[1] * 64>>
           ][Columns[x, y]]]

\* a >= b and a - b for remainders of four limbs of 13 bits
Ge4L[a \in Seq(Int), b \in Seq(Int)] ==
    \/ a[1] > b[1]
    \/ a[1] = b[1] /\ (\/ a[2] > b[2]
                       \/ a[2] = b[2] /\ (\/ a[3] > b[3]
                                          \/ a[3] = b[3] /\ a[4] >= b[4]))

Sub4L[a \in Seq(Int), b \in Seq(Int)] ==
    LET w0 == a[4] - b[4]
        w1 == a[3] - b[3] + w0 \div B13
        w2 == a[2] - b[2] + w1 \div B13
    IN  <<a[1] - b[1] + w2 \div B13, w2 % B13, w1 % B13, w0 % B13>>

\* the digit d and remainder t of a division step made exact: while the
\* remainder is not below the divisor y, one more is taken off
DivFix[d \in Int, t \in Seq(Int), y \in Seq(Int)] ==
    IF Ge4L[t, y] THEN DivFix[d + 1, Sub4L[t, y], y] ELSE <<d>> \o t

\* one step of long division in limbs of 13 bits: for a remainder r below
\* the divisor y, the next digit (r * 2^13) \div y followed by the four
\* limbs of the next remainder; d is the digit tried, r * 2^13 - d * y the
\* remainder it leaves
DivStep[r \in Seq(Int), y \in Seq(Int)] ==
    [d \in Int |->
       LET v0 == -(d * y[4])
           v1 == r[4] - d * y[3] + v0 \div B13
           v2 == r[3] - d * y[2] + v1 \div B13
       IN  DivFix[d, <<r[2] - d * y[1] + v2 \div B13 + r[1] * B13,
                       v2 % B13, v1 % B13, v0 % B13>>, y]
    ][(r[1] * B13 + r[2]) \div (y[1] + 1)]

\* n more digits of the quotient: the digits ds so far, then the remainder
DivDigits[ds \in Seq(Int), st \in Seq(Int), y \in Seq(Int), n \in Nat] ==
    IF n = 0 THEN <<ds \o <<st[1]>>, SubSeq(st, 2, 5)>>
    ELSE DivDigits[ds \o <<st[1]>>, DivStep[SubSeq(st, 2, 5), y], y, n - 1]

\* the quotient of sign s from its digits q[1] (the leading 1 if ge, then
\* five digits of 13 bits) and the remainder q[2]
DivRound[s \in Int, e \in Int, ge \in BOOLEAN, q \in Seq(Seq(Int))] ==
    LET d    == q[1]
        rest == q[2] # <<0, 0, 0, 0>>
    IN  IF ge
        THEN Pack[s, e, B26 + d[2] * B13 + d[3], d[4] * B13 + d[5],
                  d[6] >= 4096, (d[6] % 4096) # 0 \/ rest]
        ELSE Pack[s, e - 1, d[2] * 16384 + d[3] * 2 + d[4] \div 4096,
                  (d[4] % 4096) * 16384 + d[5] * 2 + d[6] \div 4096,
                  ((d[6] \div 2048) % 2) = 1, (d[6] % 2048) # 0 \/ rest]

\* x / y, y not zero: the quotient of the significands X and Y in limbs
FDiv[x \in Double, y \in Double] ==
    IF x[1] = 0 THEN Zero
    ELSE [s \in Int, e \in Int, X \in Seq(Int), Y \in Seq(Int) |->
            IF Ge4L[X, Y]
            THEN DivRound[s, e, TRUE, DivDigits[<<>>, <<1>> \o Sub4L[X, Y], Y, 5]]
            ELSE DivRound[s, e, FALSE, DivDigits[<<>>, <<0>> \o X, Y, 5]]
         ][x[1] * y[1], x[2] - y[2] - 52, Limbs[x], Limbs[y]]

\* the sign (-1, 0, 1) of x - y * y + k * y * ulp, k in {-1, 1}, for the
\* significand of x moved up by sh - 52 places (sh is 52 or 53) to
\* hi * 2^26 + lo, S the significand of y in limbs and c the columns of S * S
SqrtResidue[x \in Double, y \in Double, sh \in Int, k \in Int] ==
    [hi \in Int, lo \in Int, S \in Seq(Int), c \in Seq(Int) |->
       LET v0 == k * S[4] - c[1]
           v1 == k * S[3] - c[2] + v0 \div B13
           v2 == k * S[2] - c[3] + v1 \div B13
           v3 == k * S[1] - c[4] + v2 \div B13
           v4 == (lo % B13) - c[5] + v3 \div B13
           v5 == (lo \div B13) - c[6] + v4 \div B13
           v6 == hi - c[7] + v5 \div B13
       IN  IF v6 < 0 THEN -1
           ELSE IF v6 > 0 THEN 1
           ELSE IF (v0 % B13) = 0 /\ (v1 % B13) = 0 /\ (v2 % B13) = 0 /\ (v3 % B13) = 0
                   /\ (v4 % B13) = 0 /\ (v5 % B13) = 0 THEN 0
           ELSE 1
    ][IF sh = 53 THEN 2 * x[3] + (2 * x[4]) \div B26 ELSE x[3],
      IF sh = 53 THEN (2 * x[4]) % B26 ELSE x[4],
      Limbs[y], Columns[y, y]]

\* n steps of Newton's iteration r -> (r + a / r) / 2 for the integer
\* square root of a
ISqrt[r \in Nat, a \in Nat, n \in Nat] ==
    IF n = 0 THEN r ELSE ISqrt[(r + a \div r) \div 2, a, n - 1]

\* n steps of Newton's iteration y -> (y + x / y) / 2
SqrtIter[x \in Double, y \in Double, n \in Nat] ==
    IF n = 0 THEN y ELSE SqrtIter[x, Half[FAdd[y, FDiv[x, y]]], n - 1]

\* math.sqrt(x) for x >= 0, correctly rounded: r is the integer square root
\* (to within 1) of the leading bits of x, in [2^28, 2^30); y the guess after
\* two steps of Newton's iteration from it; the result is y or a neighbour
FSqrt[x \in Double] ==
    IF x[1] = 0 THEN Zero
    ELSE [y \in Double |->
            IF x[2] - 2 * y[2] <= 51 THEN <<1, y[2] - 1, B27 - 1, B26 - 1>>
            ELSE IF SqrtResidue[x, y, x[2] - 2 * y[2], -1] = 1
            THEN Pack[1, y[2], y[3], y[4], TRUE, TRUE]
            ELSE IF SqrtResidue[x, y, x[2] - 2 * y[2], 1] <= 0
            THEN (IF y[4] > 0 THEN <<1, y[2], y[3], y[4] - 1>>
                  ELSE <<1, y[2], y[3] - 1, B26 - 1>>)
            ELSE y
         ][SqrtIter[x,
                    [r \in Double |-> <<1, r[2] + 12 + (x[2] - (x[2] % 2)) \div 2, r[3], r[4]>>
                    ][FromInt[ISqrt[32768, (4 * x[3] + x[4] \div 16777216) * (1 + (x[2] % 2)), 5]]],
                    2]]
(***************************************************************************)
(* math.sin, math.cos, math.radians                                        *)
(***************************************************************************)
\* the constants of s_sin.c (and 128.0, 1.0), and the bounds of its ranges as
\* the doubles of the high words it compares with
Libm ==
    [ big     |-> <<1, -7, 100663296, 0>>,    \* 0x1.8000000000000p+45 (52776558133248.0)
      sn3     |-> <<-1, -55, 89478485, 22369557>>,    \* -0x1.5555555555515p-3 (-0.16666666666666488)
      sn5     |-> <<1, -59, 71582778, 2721583>>,    \* 0x1.11110e829872fp-7 (0.008333332142857223)
      cs2     |-> <<1, -53, 67108864, 0>>,    \* 0x1.0000000000000p-1 (0.5)
      cs4     |-> <<-1, -57, 89478485, 22369589>>,    \* -0x1.5555555555535p-5 (-0.04166666666666644)
      cs6     |-> <<1, -62, 95443707, 31056441>>,    \* 0x1.6c16bedd9e239p-10 (0.001388888740079376)
      s1      |-> <<-1, -55, 89478485, 22369621>>,    \* -0x1.5555555555555p-3 (-0.16666666666666666)
      s2      |-> <<1, -59, 71582788, 17895118>>,    \* 0x1.1111111110ecep-7 (0.008333333333332329)
      s3      |-> <<-1, -65, 109078534, 31131832>>,    \* -0x1.a01a019db08b8p-13 (-0.00019841269834414642)
      s4      |-> <<1, -71, 96958622, 60456665>>,    \* 0x1.71de27b9a7ed9p-19 (2.755729806860771e-06)
      s5      |-> <<-1, -78, 112689136, 50126681>>,    \* -0x1.addffc2fcdf59p-26 (-2.5022014848318398e-08)
      toint   |-> <<1, 0, 100663296, 0>>,    \* 0x1.8000000000000p+52 (6755399441055744.0)
      hpinv   |-> <<1, -53, 85445659, 30001283>>,    \* 0x1.45f306dc9c883p-1 (0.6366197723675814)
      mp1     |-> <<1, -52, 105414358, 0>>,    \* 0x1.921fb58000000p+0 (1.5707963407039642)
      mp2     |-> <<-1, -79, 125281743, 0>>,    \* -0x1.dde973c000000p-27 (-1.3909067564377153e-08)
      pp3     |-> <<-1, -107, 120384742, 0>>,    \* -0x1.cb3b398000000p-55 (-4.97899623147991e-17)
      pp4     |-> <<-1, -135, 123543496, 65220311>>,    \* -0x1.d747f23e32ed7p-83 (-1.9034889620193266e-25)
      hp0     |-> <<1, -52, 105414357, 4467992>>,    \* 0x1.921fb54442d18p+0 (1.5707963267948966)
      hp1     |-> <<1, -106, 74025356, 51665927>>,    \* 0x1.1a62633145c07p-54 (6.123233995736766e-17)
      taylor  |-> <<1, -55, 67645734, 61203284>>,    \* 0.126 = 0x1.020c49ba5e354p-3 (0.126)
      tinysin |-> <<1, -78, 67108864, 0>>,    \* high word 0x3e500000 = 0x1.0000000000000p-26 (1.4901161193847656e-08)
      tinycos |-> <<1, -79, 67108864, 0>>,    \* high word 0x3e400000 = 0x1.0000000000000p-27 (7.450580596923828e-09)
      direct  |-> <<1, -53, 114819072, 0>>,    \* high word 0x3feb6000 = 0x1.b600000000000p-1 (0.85546875)
      halfpi  |-> <<1, -51, 81411904, 0>>,    \* high word 0x400368fd = 0x1.368fd00000000p+1 (2.4262638092041016)
      f128    |-> <<1, -45, 67108864, 0>>,    \* 128 = 0x1.0000000000000p+7 (128.0)
      one     |-> <<1, -52, 67108864, 0>> ]    \* 1 = 0x1.0000000000000p+0 (1.0)

\* pi / 180.0 = 0x1.1df46a2529d39p-6 (0.017453292519943295)
DegToRad == <<1, -58, 74961320, 38968633>>

\* rows k = 0 .. 109 of sin(k/128) and cos(k/128), each as a leading double and its correction: sn, ssn, cs, ccs
SinCosTable == <<
    <<<<0, 0, 0, 0>>, <<0, 0, 0, 0>>, <<1, -52, 67108864, 0>>, <<0, 0, 0, 0>>>>,
    <<<<1, -60, 134216362, 45018863>>, <<-1, -114, 126974139, 6797180>>, <<1, -53, 134213632, 1398098>>, <<1, -107, 131235944, 1666478>>>>,
    <<<<1, -59, 134212266, 49213141>>, <<-1, -115, 78305510, 43976567>>, <<1, -53, 134201344, 22369439>>, <<1, -107, 77761064, 3825395>>>>,
    <<<<1, -58, 100654080, 16986709>>, <<1, -116, 129993428, 22180662>>, <<1, -53, 134180865, 46135270>>, <<1, -107, 112834234, 6911933>>>>,
    <<<<1, -58, 134195883, 49211503>>, <<-1, -112, 120914366, 52579042>>, <<1, -53, 134152197, 22357971>>, <<-1, -107, 82661668, 47749979>>>>,
    <<<<1, -57, 83864748, 19744213>>, <<1, -112, 87758088, 4004881>>, <<1, -53, 134115341, 1353658>>, <<1, -109, 107248943, 40655295>>>>,
    <<<<1, -57, 100626436, 3341225>>, <<-1, -111, 90599293, 7248250>>, <<1, -53, 134070298, 66976159>>, <<-1, -108, 103607640, 6589791>>>>,
    <<<<1, -57, 117381982, 5795244>>, <<1, -114, 104415040, 64746038>>, <<1, -53, 134017074, 1063473>>, <<1, -108, 86072175, 31198822>>>>,
    <<<<1, -57, 134130363, 49106651>>, <<-1, -111, 78928716, 40389481>>, <<1, -53, 133955669, 21624019>>, <<1, -107, 80350750, 60375663>>>>,
    <<<<1, -56, 75435279, 25201647>>, <<-1, -110, 131026105, 49528399>>, <<1, -53, 133886088, 44625823>>, <<1, -110, 98882125, 16075895>>>>,
    <<<<1, -56, 83800772, 47281499>>, <<-1, -110, 105407572, 43599500>>, <<1, -53, 133808336, 19525487>>, <<-1, -109, 120574157, 63532951>>>>,
    <<<<1, -56, 92161151, 17872695>>, <<-1, -110, 67507136, 46043394>>, <<1, -53, 133722416, 63468523>>, <<-1, -112, 90862145, 24922626>>>>,
    <<<<1, -56, 100515904, 52777188>>, <<1, -112, 113183558, 20506>>, <<1, -53, 133628335, 58616731>>, <<1, -107, 80101549, 20314331>>>>,
    <<<<1, -56, 108864523, 22401529>>, <<1, -110, 77224799, 44834241>>, <<1, -53, 133526098, 54779904>>, <<-1, -109, 79288882, 55546617>>>>,
    <<<<1, -56, 117206497, 23607581>>, <<1, -110, 128213255, 32132296>>, <<1, -53, 133415712, 956849>>, <<1, -109, 128513505, 47285932>>>>,
    <<<<1, -56, 125541317, 46255334>>, <<-1, -111, 88335243, 62330483>>, <<1, -53, 133297182, 13745288>>, <<1, -107, 69039249, 8238725>>>>,
    <<<<1, -56, 133868475, 42397238>>, <<-1, -111, 113192111, 13037627>>, <<1, -53, 133170516, 41769939>>, <<1, -107, 114965716, 9760696>>>>,
    <<<<1, -55, 71093731, 31289809>>, <<1, -109, 123804188, 38735774>>, <<1, -53, 133035722, 66979477>>, <<1, -107, 75983741, 16145073>>>>,
    <<<<1, -55, 75248885, 61853359>>, <<-1, -109, 96200002, 26700197>>, <<1, -53, 132892809, 37506003>>, <<-1, -110, 88781700, 54142825>>>>,
    <<<<1, -55, 79399447, 38451343>>, <<-1, -109, 127091649, 31383640>>, <<1, -53, 132741785, 1849074>>, <<1, -111, 68381115, 18336892>>>>,
    <<<<1, -55, 83545163, 6121163>>, <<1, -109, 85940634, 57068433>>, <<1, -53, 132582658, 41731112>>, <<1, -107, 118938305, 37450850>>>>,
    <<<<1, -55, 87685779, 29749883>>, <<1, -110, 106067658, 46166780>>, <<1, -53, 132415440, 3624193>>, <<-1, -109, 99880915, 20618828>>>>,
    <<<<1, -55, 91821043, 60892915>>, <<-1, -109, 96276673, 37718454>>, <<1, -53, 132240139, 35581174>>, <<-1, -107, 119096632, 20130582>>>>,
    <<<<1, -55, 95950704, 5918028>>, <<-1, -118, 80418594, 58837312>>, <<1, -53, 132056767, 50322980>>, <<-1, -108, 104683249, 7684273>>>>,
    <<<<1, -55, 100074507, 62583477>>, <<1, -111, 90887224, 37525443>>, <<1, -53, 131865335, 60739100>>, <<-1, -107, 94777859, 3595444>>>>,
    <<<<1, -55, 104192203, 49981764>>, <<-1, -109, 75753624, 46905683>>, <<1, -53, 131665855, 45624013>>, <<1, -108, 95158960, 33433772>>>>,
    <<<<1, -55, 108303540, 13550354>>, <<1, -110, 108072800, 11604861>>, <<1, -53, 131458339, 16738199>>, <<1, -109, 126780239, 33796565>>>>,
    <<<<1, -55, 112408266, 24774501>>, <<-1, -110, 107089621, 64409067>>, <<1, -53, 131242799, 18758265>>, <<1, -107, 72318011, 28228439>>>>,
    <<<<1, -55, 116506131, 47997337>>, <<1, -109, 108030298, 41618603>>, <<1, -53, 131019248, 62116206>>, <<-1, -109, 75927220, 42611860>>>>,
    <<<<1, -55, 120596886, 8554915>>, <<-1, -109, 102380582, 63470699>>, <<1, -53, 130787701, 55836653>>, <<1, -107, 120653911, 56022403>>>>,
    <<<<1, -55, 124680279, 62236112>>, <<-1, -109, 80447541, 46952386>>, <<1, -53, 130548172, 8807583>>, <<1, -108, 115671301, 46241867>>>>,
    <<<<1, -55, 128756063, 59434403>>, <<-1, -109, 70222251, 56044779>>, <<1, -53, 130300674, 29722427>>, <<1, -107, 124001437, 36442755>>>>,
    <<<<1, -55, 132823989, 15930743>>, <<-1, -109, 72835604, 9319096>>, <<1, -53, 130045223, 58584737>>, <<1, -107, 122619814, 31836925>>>>,
    <<<<1, -54, 68441903, 56956252>>, <<-1, -108, 107884711, 33394376>>, <<1, -53, 129781836, 864038>>, <<-1, -107, 78284482, 14603122>>>>,
    <<<<1, -54, 70467635, 49505334>>, <<-1, -108, 108970627, 9691829>>, <<1, -53, 129510526, 62976284>>, <<-1, -111, 117393632, 12305329>>>>,
    <<<<1, -54, 72489066, 43310571>>, <<-1, -109, 117055597, 28710308>>, <<1, -53, 129231313, 14020513>>, <<-1, -110, 89866898, 49627600>>>>,
    <<<<1, -54, 74506073, 13023350>>, <<1, -108, 85466559, 34459637>>, <<1, -53, 128944211, 58126248>>, <<-1, -107, 67889092, 45765694>>>>,
    <<<<1, -54, 76518532, 18526006>>, <<-1, -108, 87826444, 55508760>>, <<1, -53, 128649240, 29077327>>, <<1, -109, 78673231, 43279757>>>>,
    <<<<1, -54, 78526321, 4109471>>, <<1, -109, 72699430, 32692231>>, <<1, -53, 128346416, 61328771>>, <<-1, -107, 76124870, 63257832>>>>,
    <<<<1, -54, 80529317, 302983>>, <<1, -108, 126037421, 798764>>, <<1, -53, 128035759, 53062125>>, <<1, -107, 105799359, 29055143>>>>,
    <<<<1, -54, 82527397, 57267160>>, <<1, -115, 68113729, 8881048>>, <<1, -53, 127717288, 1654080>>, <<-1, -107, 93364941, 21417491>>>>,
    <<<<1, -54, 84520441, 43968151>>, <<-1, -108, 130183637, 50709919>>, <<1, -53, 127391021, 3598800>>, <<1, -107, 100320244, 3131580>>>>,
    <<<<1, -54, 86508326, 51330336>>, <<1, -108, 101248666, 61902509>>, <<1, -53, 127056978, 53101724>>, <<-1, -107, 94578699, 42625075>>>>,
    <<<<1, -54, 88490931, 57190266>>, <<1, -108, 114121813, 32436467>>, <<1, -53, 126715181, 41997989>>, <<-1, -108, 77456618, 33641015>>>>,
    <<<<1, -54, 90468135, 61011351>>, <<1, -109, 99734251, 4186315>>, <<1, -53, 126365650, 28104385>>, <<-1, -110, 93858737, 66020204>>>>,
    <<<<1, -54, 92439818, 17270645>>, <<1, -110, 113767938, 61378867>>, <<1, -53, 126008406, 33807310>>, <<1, -110, 133839296, 41360102>>>>,
    <<<<1, -54, 94405858, 37279735>>, <<-1, -108, 123872384, 38029997>>, <<1, -53, 125643471, 45975390>>, <<-1, -107, 126575263, 40318660>>>>,
    <<<<1, -54, 96366136, 54133333>>, <<1, -108, 84602963, 48880141>>, <<1, -53, 125270868, 15870166>>, <<-1, -109, 127939125, 2859711>>>>,
    <<<<1, -54, 98320533, 24527380>>, <<-1, -109, 96122316, 21739214>>, <<1, -53, 124890618, 60381458>>, <<1, -110, 86825245, 57527605>>>>,
    <<<<1, -54, 100268928, 63466830>>, <<-1, -108, 114880310, 46095090>>, <<1, -53, 124502746, 59281027>>, <<1, -107, 109651850, 56515818>>>>,
    <<<<1, -54, 102211204, 42101065>>, <<1, -108, 103351206, 56601824>>, <<1, -53, 124107275, 57780700>>, <<1, -107, 134055669, 30540701>>>>,
    <<<<1, -54, 104147241, 57973039>>, <<1, -108, 85098682, 41313062>>, <<1, -53, 123704229, 65108810>>, <<-1, -109, 82697229, 19656084>>>>,
    <<<<1, -54, 106076922, 32851653>>, <<-1, -108, 94845007, 40386392>>, <<1, -53, 123293633, 54411328>>, <<-1, -107, 98078096, 55307319>>>>,
    <<<<1, -54, 108000128, 48760080>>, <<1, -108, 69701224, 52474020>>, <<1, -53, 122875512, 29759968>>, <<1, -107, 130887389, 59084641>>>>,
    <<<<1, -54, 109916743, 12913866>>, <<-1, -110, 109855630, 55627469>>, <<1, -53, 122449891, 26049542>>, <<1, -108, 127416140, 9030621>>>>,
    <<<<1, -54, 111826648, 60854903>>, <<-1, -109, 92950444, 20710273>>, <<1, -53, 122016796, 41784560>>, <<1, -107, 70601415, 46245006>>>>,
    <<<<1, -54, 113729729, 20059671>>, <<-1, -108, 112758962, 60421401>>, <<1, -53, 121576254, 38972831>>, <<1, -107, 103640404, 9382413>>>>,
    <<<<1, -54, 115625868, 14396483>>, <<-1, -108, 126757707, 57425905>>, <<1, -53, 121128292, 10126053>>, <<1, -107, 75255406, 53547162>>>>,
    <<<<1, -54, 117514949, 61948067>>, <<1, -109, 73922973, 25075623>>, <<1, -53, 120672936, 45258542>>, <<1, -109, 87786890, 61356696>>>>,
    <<<<1, -54, 119396859, 8376734>>, <<-1, -110, 128734022, 37574694>>, <<1, -53, 120210215, 63339787>>, <<-1, -109, 85631058, 6173794>>>>,
    <<<<1, -54, 121271480, 64267551>>, <<-1, -109, 79635076, 47899288>>, <<1, -53, 119740158, 13507204>>, <<1, -108, 111998056, 22610211>>>>,
    <<<<1, -54, 123138701, 292449>>, <<1, -108, 77762857, 56607388>>, <<1, -53, 119262792, 9168187>>, <<-1, -107, 97548030, 61528898>>>>,
    <<<<1, -54, 124998405, 20094106>>, <<1, -108, 70595000, 24247706>>, <<1, -53, 118778146, 59447134>>, <<-1, -109, 74378510, 60467328>>>>,
    <<<<1, -54, 126850480, 22555241>>, <<-1, -110, 69804164, 10090639>>, <<1, -53, 118286252, 1957249>>, <<-1, -107, 120241531, 42124736>>>>,
    <<<<1, -54, 128694813, 4916720>>, <<-1, -110, 98725135, 10158717>>, <<1, -53, 117787137, 39550288>>, <<-1, -107, 103056452, 51570728>>>>,
    <<<<1, -54, 130531290, 63240571>>, <<1, -108, 73172158, 10965596>>, <<1, -53, 117280834, 1996086>>, <<1, -107, 115275205, 36219297>>>>,
    <<<<1, -54, 132359801, 57326743>>, <<1, -110, 108418091, 53280931>>, <<1, -53, 116767372, 16946421>>, <<1, -108, 80146226, 9179293>>>>,
    <<<<1, -54, 134180234, 13825402>>, <<1, -109, 131245643, 43015018>>, <<1, -53, 116246783, 40046386>>, <<1, -108, 97186961, 19728953>>>>,
    <<<<1, -53, 67996238, 29792597>>, <<-1, -107, 79049566, 3767041>>, <<1, -53, 115719099, 56132622>>, <<1, -110, 85364529, 59747808>>>>,
    <<<<1, -53, 68898209, 43282011>>, <<1, -107, 83717009, 20512539>>, <<1, -53, 115184353, 11994306>>, <<-1, -107, 131469872, 35338395>>>>,
    <<<<1, -53, 69795975, 43913217>>, <<-1, -107, 96309480, 20518134>>, <<1, -53, 114642576, 17567822>>, <<1, -110, 104848977, 50493974>>>>,
    <<<<1, -53, 70689481, 45442862>>, <<-1, -107, 110507964, 12511497>>, <<1, -53, 114093802, 10258760>>, <<1, -107, 128559431, 18836649>>>>,
    <<<<1, -53, 71578673, 11967547>>, <<1, -107, 124019302, 8427905>>, <<1, -53, 113538064, 23241926>>, <<1, -108, 74929543, 50053314>>>>,
    <<<<1, -53, 72463495, 59473794>>, <<1, -108, 117331159, 36125096>>, <<1, -53, 112975396, 51106421>>, <<-1, -108, 132176030, 24407956>>>>,
    <<<<1, -53, 73343895, 53407152>>, <<1, -109, 81237444, 3024008>>, <<1, -53, 112405833, 49716709>>, <<1, -107, 104782499, 30848716>>>>,
    <<<<1, -53, 74219819, 11546589>>, <<-1, -110, 130433820, 13350399>>, <<1, -53, 111829410, 3180819>>, <<-1, -115, 115406209, 63787120>>>>,
    <<<<1, -53, 75091212, 37115724>>, <<1, -108, 76189673, 15998298>>, <<1, -53, 111246160, 57925677>>, <<1, -109, 107970958, 6211474>>>>,
    <<<<1, -53, 75958022, 50566351>>, <<1, -110, 127323282, 52668977>>, <<1, -53, 110656121, 52790959>>, <<1, -107, 90229816, 50152767>>>>,
    <<<<1, -53, 76820196, 58231739>>, <<1, -108, 128513033, 5749966>>, <<1, -53, 110059328, 55754191>>, <<-1, -107, 94596795, 10589801>>>>,
    <<<<1, -53, 77677682, 18325607>>, <<-1, -107, 67599478, 27356016>>, <<1, -53, 109455818, 28238917>>, <<1, -112, 106400092, 57410392>>>>,
    <<<<1, -53, 78530426, 42484254>>, <<-1, -107, 132701302, 52521648>>, <<1, -53, 108845627, 26292101>>, <<-1, -107, 74743857, 24712710>>>>,
    <<<<1, -53, 79378377, 60436610>>, <<1, -107, 122508792, 15197054>>, <<1, -53, 108228792, 66215516>>, <<1, -107, 83780676, 43597666>>>>,
    <<<<1, -53, 80221484, 21544015>>, <<1, -107, 131780738, 22680411>>, <<1, -53, 107605352, 57304340>>, <<1, -107, 97039347, 10463145>>>>,
    <<<<1, -53, 81059694, 29229927>>, <<1, -109, 114073502, 49299696>>, <<1, -53, 106975345, 3019536>>, <<1, -107, 122158593, 8974477>>>>,
    <<<<1, -53, 81892957, 5646379>>, <<-1, -108, 71560042, 20645800>>, <<1, -53, 106338808, 831997>>, <<-1, -107, 70238056, 35620397>>>>,
    <<<<1, -53, 82721221, 27427850>>, <<-1, -108, 106796265, 64155771>>, <<1, -53, 105695780, 40738450>>, <<-1, -107, 116251648, 56626394>>>>,
    <<<<1, -53, 83544436, 57464122>>, <<-1, -110, 117005368, 22482880>>, <<1, -53, 105046302, 5102327>>, <<-1, -108, 71281730, 45693831>>>>,
    <<<<1, -53, 84362553, 12216208>>, <<1, -107, 85468148, 42462453>>, <<1, -53, 104390412, 4037329>>, <<-1, -109, 85518637, 20794360>>>>,
    <<<<1, -53, 85175520, 30357611>>, <<-1, -107, 83581703, 40523013>>, <<1, -53, 103728150, 39700736>>, <<1, -107, 102299663, 43283649>>>>,
    <<<<1, -53, 85983289, 3216799>>, <<-1, -107, 113660573, 6548752>>, <<1, -53, 103059558, 6129439>>, <<1, -107, 118634097, 1305988>>>>,
    <<<<1, -53, 86785809, 44742497>>, <<1, -113, 70680924, 59557274>>, <<1, -53, 102384675, 24618694>>, <<1, -108, 80625656, 46131677>>>>,
    <<<<1, -53, 87583033, 21943579>>, <<-1, -107, 110250978, 28821354>>, <<1, -53, 101703543, 40901792>>, <<-1, -111, 72659928, 10209000>>>>,
    <<<<1, -53, 88374911, 24851740>>, <<-1, -107, 91240984, 29657137>>, <<1, -53, 101016204, 26307933>>, <<-1, -109, 125447746, 58861790>>>>,
    <<<<1, -53, 89161395, 31176484>>, <<1, -108, 76329121, 18928529>>, <<1, -53, 100322699, 44700808>>, <<1, -110, 109533545, 10851743>>>>,
    <<<<1, -53, 89942437, 40720819>>, <<1, -110, 119606995, 17805720>>, <<1, -53, 99623071, 50980175>>, <<-1, -109, 119338421, 53145192>>>>,
    <<<<1, -53, 90717990, 8469010>>, <<-1, -107, 123779245, 64234107>>, <<1, -53, 98917363, 25126211>>, <<-1, -107, 111975866, 30694116>>>>,
    <<<<1, -53, 91488005, 46108429>>, <<1, -107, 106638556, 15423370>>, <<1, -53, 98205617, 39133471>>, <<-1, -109, 101315955, 59533509>>>>,
    <<<<1, -53, 92252437, 19570263>>, <<1, -107, 70103997, 65937591>>, <<1, -53, 97487877, 55507873>>, <<-1, -109, 91548559, 26520927>>>>,
    <<<<1, -53, 93011238, 18984057>>, <<-1, -107, 129459733, 28714010>>, <<1, -53, 96764187, 61306488>>, <<1, -107, 84503593, 16948353>>>>,
    <<<<1, -53, 93764362, 23324501>>, <<1, -107, 71941722, 57738556>>, <<1, -53, 96034592, 849246>>, <<1, -107, 92316087, 47960230>>>>,
    <<<<1, -53, 94511763, 34818863>>, <<-1, -107, 95286493, 38065638>>, <<1, -53, 95299134, 43973469>>, <<1, -108, 72790497, 46986418>>>>,
    <<<<1, -53, 95253396, 12026394>>, <<-1, -109, 91571555, 57683471>>, <<1, -53, 94557860, 48980563>>, <<-1, -107, 107628214, 25557148>>>>,
    <<<<1, -53, 95989215, 4242913>>, <<-1, -108, 70896225, 25144659>>, <<1, -53, 93810815, 32214202>>, <<-1, -110, 106890961, 53705847>>>>,
    <<<<1, -53, 96719175, 17468480>>, <<1, -109, 106936206, 8746765>>, <<1, -53, 93058044, 33657287>>, <<1, -109, 124014818, 22501103>>>>,
    <<<<1, -53, 97443232, 14591352>>, <<-1, -108, 76095681, 47977122>>, <<1, -53, 92299593, 49636319>>, <<1, -107, 85666168, 14955216>>>>,
    <<<<1, -53, 98161341, 49788196>>, <<1, -108, 128405477, 11306152>>, <<1, -53, 91535509, 32633210>>, <<1, -107, 67915841, 13142315>>>>,
    <<<<1, -53, 98873460, 269650>>, <<-1, -107, 112181627, 45307115>>, <<1, -53, 90765838, 25313399>>, <<1, -107, 84552329, 56213090>>>>,
    <<<<1, -53, 99579543, 36221890>>, <<1, -111, 112477791, 13435795>>, <<1, -53, 89990627, 26117106>>, <<1, -107, 131188011, 52964643>>>>,
    <<<<1, -53, 100279549, 17004889>>, <<1, -107, 71024362, 40176716>>, <<1, -53, 89209923, 56175781>>, <<-1, -107, 127842873, 46638639>>>>,
    <<<<1, -53, 100973434, 28199844>>, <<-1, -107, 98615991, 54537690>>, <<1, -53, 88423775, 24900570>>, <<1, -108, 85885984, 7586393>>>>>>

\* copysign(r, x) for x not zero
CopySign[r \in Double, x \in Double] == IF x[1] < 0 THEN FNeg[FAbs[r]] ELSE FAbs[r]

\* c[1] + xx * (c[2] + xx * (c[3] + ...)), every step one fused multiply-add
Poly[xx \in Double, c \in Seq(Double)] ==
    IF Len(c) = 1 THEN c[1] ELSE FMA[xx, Poly[xx, Tail(c)], c[1]]

\* the double u = ax + big whose low bits are the table index, followed by
\* the row sn, ssn, cs, ccs of the table nearest to ax
Lookup[ax \in Double] ==
    [u \in Double |->
       <<u>> \o SinCosTable[Trunc[FMul[FSub[u, Libm.big], Libm.f128]] + 1]
    ][FAdd[ax, Libm.big]]

\* TAYLOR_SIN(xx, x, dx)
TaylorSin[xx \in Double, x \in Double, dx \in Double] ==
    FAdd[x, FMA[xx, FMA[Poly[xx, <<Libm.s1, Libm.s2, Libm.s3, Libm.s4, Libm.s5>>], x,
                        FNeg[FMul[Libm.cs2, dx]]], dx]]

\* do_sin(x0, dx0): sin(x0 + dx0) for |x0| below 0.855469, t = Lookup[|x0|];
\* x is the offset of |x0| from the table entry, xx its square, s and c the
\* corrections the table values t[2..5] = sn, ssn, cs, ccs are combined with
DoSin[x0 \in Double, dx0 \in Double, t \in Seq(Double)] ==
    IF MagLess[x0, Libm.taylor] THEN TaylorSin[FMul[x0, x0], x0, dx0]
    ELSE [dx \in Double, x \in Double |->
            [xx \in Double |->
               [s \in Double, c \in Double |->
                  CopySign[FAdd[t[2], FMA[s, t[4], FMA[FNeg[c], t[2], FMA[s, t[5], t[3]]]]], x0]
               ][FAdd[x, FMA[FMul[x, xx], Poly[xx, <<Libm.sn3, Libm.sn5>>], dx]],
                 FMA[x, dx, FMul[xx, Poly[xx, <<Libm.cs2, Libm.cs4, Libm.cs6>>]]]]
            ][FMul[x, x]]
         ][IF x0[1] <= 0 THEN FNeg[dx0] ELSE dx0, FSub[FAbs[x0], FSub[t[1], Libm.big]]]

\* do_cos(x0, dx0): cos(x0 + dx0) for |x0| below 0.855469, t = Lookup[|x0|]
DoCos[x0 \in Double, dx0 \in Double, t \in Seq(Double)] ==
    [x \in Double |->
       [xx \in Double |->
          [s \in Double, c \in Double |->
             FAdd[t[4], FMA[FNeg[s], t[2], FMA[FNeg[c], t[4], FMA[FNeg[s], t[3], t[5]]]]]
          ][FMA[FMul[x, xx], Poly[xx, <<Libm.sn3, Libm.sn5>>], x],
            FMul[xx, Poly[xx, <<Libm.cs2, Libm.cs4, Libm.cs6>>]]]
       ][FMul[x, x]]
    ][FAdd[FSub[FAbs[x0], FSub[t[1], Libm.big]], IF x0[1] < 0 THEN FNeg[dx0] ELSE dx0]]

\* do_sincos(a, da, n): the sine of a + da + n * pi/2
DoSinCos[a \in Double, da \in Double, n \in Int] ==
    [r \in Double |-> IF (n \div 2) % 2 = 1 THEN FNeg[r] ELSE r
    ][[t \in Seq(Double) |-> IF n % 2 = 1 THEN DoCos[a, da, t] ELSE DoSin[a, da, t]
      ][Lookup[FAbs[a]]]]

\* reduce_sincos(x): a, da and n mod 4 with x = n * pi/2 + a + da; xn, y, t2,
\* d1 and b are the variables of the same names
ReduceSinCos[x \in Double] ==
    [xn \in Double |->
       [y \in Double |->
          [t2 \in Double |->
             [d1 \in Double, b \in Double |->
                [a |-> b, da |-> FAdd[d1, FMA[FNeg[xn], Libm.pp4, FSub[t2, b]]],
                 n |-> Trunc[xn] % 4, sign |-> 0]
             ][FMA[FNeg[Libm.pp3], xn, FSub[y, t2]], FMA[FNeg[xn], Libm.pp4, t2]]
          ][FMA[FNeg[xn], Libm.pp3, y]]
       ][FMA[FNeg[xn], Libm.mp2, FMA[FNeg[xn], Libm.mp1, x]]]
    ][FSub[FMA[x, Libm.hpinv, Libm.toint], Libm.toint]]

\* the arguments a, da, n of do_sincos that __sin (q = 0) and __cos (q = 1)
\* use for x, and the sign the result is given (0: it keeps its own)
TrigPlan[x \in Double, q \in {0, 1}] ==
    IF MagLess[x, Libm.direct] THEN [a |-> x, da |-> Zero, n |-> q, sign |-> 0]
    ELSE IF MagLess[x, Libm.halfpi]
    THEN [y \in Double |->
            IF q = 0 THEN [a |-> y, da |-> Libm.hp1, n |-> 1, sign |-> x[1]]
            ELSE [a \in Double |->
                    [a |-> a, da |-> FAdd[FSub[y, a], Libm.hp1], n |-> 0, sign |-> 0]
                 ][FAdd[y, Libm.hp1]]
         ][FSub[Libm.hp0, FAbs[x]]]
    ELSE [ReduceSinCos[x] EXCEPT !.n = @ + q]

\* math.sin(x) for q = 0 and math.cos(x) for q = 1, x a double in radians,
\* |x| < 105414336
Trig[x \in Double, q \in {0, 1}] ==
    IF MagLess[x, IF q = 0 THEN Libm.tinysin ELSE Libm.tinycos]
    THEN (IF q = 0 THEN x ELSE Libm.one)
    ELSE [p \in [a : Double, da : Double, n : Int, sign : Int] |->
            [r \in Double |-> IF p.sign = 0 THEN r ELSE CopySign[r, <<p.sign, 0, 0, 0>>]
            ][DoSinCos[p.a, p.da, p.n]]
         ][TrigPlan[x, q]]

Sin[x \in Double] == Trig[x, 0]
Cos[x \in Double] == Trig[x, 1]

\* <<math.cos(x), math.sin(x)>>
CosSin[x \in Double] == [t \in [{0, 1} -> Double] |-> <<t[1], t[0]>>][[q \in {0, 1} |-> Trig[x, q]]]

\* math.radians
Radians[x \in Double] == FMul[x, DegToRad]
(***************************************************************************)
(* Constants of the program                                                *)
(***************************************************************************)
SCREEN_W == 1280
SCREEN_H == 720
WORLD_W == 6000
WORLD_H == 4000
PLAYER_SIZE == 24
PLAYER_SPEED == 300
BOOST_SPEED == 1200
CAR_W == 56
CAR_H == 32
MAX_SPEED == 900
ACCEL == 1400
BRAKE == 2600
TURN_SPEED == 160
NPC_SIZE == 20
ENTER_RADIUS == 80
EXIT_OFFSET == 70
MARKER_RADIUS == 100
MARKER_INSET == 200

\* the double nearest to n / d, as Python reads a decimal literal
Decimal[n \in Int, d \in Int] == FDiv[FromInt[n], FromInt[d]]

\* self.friction = 0.985
FRICTION == Decimal[985, 1000]
\* the bounds 0.15 and 1.2 of speed_factor and its divisor 200.0
TURN_MIN == Decimal[15, 100]
TURN_MAX == Decimal[12, 10]
TURN_REF == FromInt[200]
\* self.vel *= -0.35
BOUNCE == Decimal[-35, 100]
\* car.vel *= 0.6
EXIT_DAMP == Decimal[6, 10]
\* the factor 0.5 of the brake
BRAKE_SHARE == Decimal[5, 10]

(***************************************************************************)
(* pygame.math.Vector2                                                     *)
(***************************************************************************)
Vec == Double \X Double

\* Vector2(x, y) of two integers
V[x \in Int, y \in Int] == <<FromInt[x], FromInt[y]>>

\* a + b, a - b, v * k (each coordinate on its own)
VAdd[a \in Vec, b \in Vec] == <<FAdd[a[1], b[1]], FAdd[a[2], b[2]]>>
VSub[a \in Vec, b \in Vec] == <<FSub[a[1], b[1]], FSub[a[2], b[2]]>>
VScale[v \in Vec, k \in Double] == <<FMul[v[1], k], FMul[v[2], k]>>

\* Vector2.length_squared() and Vector2.length()
LengthSquared[v \in Vec] == FAdd[FMul[v[1], v[1]], FMul[v[2], v[2]]]
Length[v \in Vec] == FSqrt[LengthSquared[v]]

\* Vector2.normalize(): each coordinate divided by the length l
Normalize[v \in Vec] == [l \in Double |-> <<FDiv[v[1], l], FDiv[v[2], l]>>][Length[v]]

\* Vector2.scale_to_length(n): each coordinate times n / length
ScaleToLength[v \in Vec, n \in Double] == VScale[v, FDiv[n, Length[v]]]

\* clamp(x, a, b) = max(a, min(b, x))
clamp[x \in Double, a \in Double, b \in Double] == FMax[a, FMin[b, x]]

\* dist(a, b) = (a - b).length()
Dist[a \in Vec, b \in Vec] == Length[VSub[a, b]]

\* dt = CLOCK.tick(60) / 1000.0 for a frame of ms milliseconds
Secs[ms \in Int] == FDiv[FromInt[ms], FromInt[1000]]

(***************************************************************************)
(* pygame.Rect and collision                                               *)
(***************************************************************************)
Rects == [x : Int, y : Int, w : Int, h : Int]

\* r = pygame.Rect(0, 0, w, h); r.center = pos: the centre's coordinates are
\* truncated to integers
CenteredRect[pos \in Vec, w \in Int, h \in Int] ==
    [x |-> Trunc[pos[1]] - (w \div 2),
     y |-> Trunc[pos[2]] - (h \div 2),
     w |-> w, h |-> h]

\* pygame.Rect.colliderect: strict overlap, never with an empty rectangle
colliderect[a \in Rects, b \in Rects] ==
    /\ a.w > 0 /\ a.h > 0 /\ b.w > 0 /\ b.h > 0
    /\ a.x < b.x + b.w
    /\ a.y < b.y + b.h
    /\ a.x + a.w > b.x
    /\ a.y + a.h > b.y

\* the "for b in buildings: if rect.colliderect(b.rect): ... break" scans
CollidesAny[r \in Rects, bs \in Seq(Rects)] == \E i \in 1..Len(bs) : colliderect[r, bs[i]]

\* mutant of ClampWorld: the lower bound of the clamp is lost
ClampWorldUpperOnly(p) ==
    [q \in Vec |-> <<FMin[FromInt[WORLD_W], q[1]], FMin[FromInt[WORLD_H], q[2]]>>][p]

\* Vector2(clamp(p.x, 0, WORLD_W), clamp(p.y, 0, WORLD_H))
ClampWorld(p) ==
    [q \in Vec |->
       <<clamp[q[1], Zero, FromInt[WORLD_W]], clamp[q[2], Zero, FromInt[WORLD_H]]>>
    ][p]

\* mutant of DistLess: the radius is not strict (dist(a, b) <= r)
DistLessOrEqual(a, b, r) == FLessEq[Dist[a, b], FromInt[r]]

\* dist(a, b) < r
DistLess(a, b, r) == FLess[Dist[a, b], FromInt[r]]

(***************************************************************************)
(* Camera                                                                  *)
(***************************************************************************)
\* mutant of CameraUpdate: the offset is clamped from below only
CameraUpdateNoUpper(target) ==
    [q \in Vec |->
       <<FMax[Zero, FSub[q[1], Half[FromInt[SCREEN_W]]]],
         FMax[Zero, FSub[q[2], Half[FromInt[SCREEN_H]]]]>>
    ][target]

\* Camera.update(target_pos): the new Camera.pos
CameraUpdate(target) ==
    [q \in Vec |->
       <<clamp[FSub[q[1], Half[FromInt[SCREEN_W]]], Zero, FromInt[WORLD_W - SCREEN_W]],
         clamp[FSub[q[2], Half[FromInt[SCREEN_H]]], Zero, FromInt[WORLD_H - SCREEN_H]]>>
    ][target]

(***************************************************************************)
(* Player                                                                  *)
(***************************************************************************)
\* dirv of Player.update from the held movement keys; a held-key set holds
\* "up" for keys[K_w] or keys[K_UP], "down" for K_s or K_DOWN, "left" for
\* K_a or K_LEFT, "right" for K_d or K_RIGHT, and "r" for K_r
KeyDir(ks) ==
    V[(IF "right" \in ks THEN 1 ELSE 0) - (IF "left" \in ks THEN 1 ELSE 0),
      (IF "down" \in ks THEN 1 ELSE 0) - (IF "up" \in ks THEN 1 ELSE 0)]

\* newpos = self.pos + dirv * self.speed * dt, after dirv = dirv.normalize()
PlayerStep(pos, dirv, speed, t) == VAdd[pos, VScale[VScale[Normalize[dirv], speed], t]]

\* mutant of PlayerUpdate: a zero dirv is replaced by +x (as NPC does for a
\* zero wander direction) instead of skipping the move
PlayerUpdateDefaultDir(p, t, ks, bs) ==
    IF p.in_car # "None" THEN p
    ELSE
      [dirv \in Vec |->
         [newpos \in Vec |->
            [p EXCEPT !.pos =
               ClampWorld(IF CollidesAny[CenteredRect[newpos, PLAYER_SIZE, PLAYER_SIZE], bs]
                          THEN p.pos ELSE newpos)]
         ][PlayerStep(p.pos, IF dirv = <<Zero, Zero>> THEN V[1, 0] ELSE dirv, p.speed, t)]
      ][KeyDir(ks)]

\* mutant of PlayerUpdate: sliding collision, each axis is moved and tested
\* on its own
PlayerUpdateSliding(p, t, ks, bs) ==
    IF p.in_car # "None" THEN p
    ELSE
      [dirv \in Vec |->
         IF ~FLess[Zero, LengthSquared[dirv]] THEN [p EXCEPT !.pos = ClampWorld(p.pos)]
         ELSE
           [newpos \in Vec |->
              [afterx \in Vec |->
                 [p EXCEPT !.pos =
                    ClampWorld(IF CollidesAny[CenteredRect[<<afterx[1], newpos[2]>>,
                                                           PLAYER_SIZE, PLAYER_SIZE], bs]
                               THEN afterx ELSE <<afterx[1], newpos[2]>>)]
              ][IF CollidesAny[CenteredRect[<<newpos[1], p.pos[2]>>,
                                            PLAYER_SIZE, PLAYER_SIZE], bs]
                THEN p.pos ELSE <<newpos[1], p.pos[2]>>]
           ][PlayerStep(p.pos, dirv, p.speed, t)]
      ][KeyDir(ks)]

\* Player.update(dt, keys, buildings): the player afterwards; dirv and newpos
\* are the variables of the same names
PlayerUpdate(p, t, ks, bs) ==
    IF p.in_car # "None" THEN p
    ELSE
      [dirv \in Vec |->
         IF ~FLess[Zero, LengthSquared[dirv]] THEN [p EXCEPT !.pos = ClampWorld(p.pos)]
         ELSE
           [newpos \in Vec |->
              [p EXCEPT !.pos =
                 ClampWorld(IF CollidesAny[CenteredRect[newpos, PLAYER_SIZE, PLAYER_SIZE], bs]
                            THEN p.pos ELSE newpos)]
           ][PlayerStep(p.pos, dirv, p.speed, t)]
      ][KeyDir(ks)]

(***************************************************************************)
(* Car                                                                     *)
(***************************************************************************)
\* forward = Vector2(math.cos(math.radians(angle)), math.sin(math.radians(angle)))
Forward[angle \in Double] == CosSin[Radians[angle]]

\* the body of "if self.driver:" in Car.update: velocity and heading after
\* the held keys have accelerated, braked and turned the car; forward and
\* turn are the variables of the same names, vel is self.vel after
\*   if keys[K_w] or keys[K_UP]:   self.vel += forward * self.accel * dt
\*   if keys[K_s] or keys[K_DOWN]: self.vel -= forward * self.brake * dt * 0.5
\* turn is self.turn_speed * dt * clamp(self.vel.length() / 200.0, 0.15, 1.2),
\* and the heading is changed by
\*   if left: self.angle -= turn
\*   if right: self.angle += turn
DriverInput(c, t, ks) ==
    [forward \in Vec |->
       [vel \in Vec |->
          [turn \in Double |->
             [left \in Double |->
                [vel |-> vel,
                 angle |-> IF "right" \in ks THEN FAdd[left, turn] ELSE left]
             ][IF "left" \in ks THEN FSub[c.angle, turn] ELSE c.angle]
          ][FMul[FMul[FromInt[TURN_SPEED], t],
                 clamp[FDiv[Length[vel], TURN_REF], TURN_MIN, TURN_MAX]]]
       ][[up \in Vec |->
            IF "down" \in ks
            THEN VSub[up, VScale[VScale[VScale[forward, FromInt[BRAKE]], t], BRAKE_SHARE]]
            ELSE up
         ][IF "up" \in ks
           THEN VAdd[c.vel, VScale[VScale[forward, FromInt[ACCEL]], t]]
           ELSE c.vel]]
    ][Forward[c.angle]]

\* mutant of CarInput: the keys act whether or not the car has a driver
CarInputNoDriverTest(c, t, ks) == DriverInput(c, t, ks)

\* the "driver input" block of Car.update: velocity and heading afterwards
CarInput(c, t, ks) ==
    IF c.driver = "None" THEN [vel |-> c.vel, angle |-> c.angle]
    ELSE DriverInput(c, t, ks)

\* mutant of CarFriction: friction without the max_speed cut
CarFrictionNoClamp(v) == VScale[v, FRICTION]

\* self.vel *= self.friction;
\* if self.vel.length() > self.max_speed: self.vel.scale_to_length(self.max_speed)
CarFriction(v) ==
    [vel \in Vec |->
       IF FLess[FromInt[MAX_SPEED], Length[vel]]
       THEN ScaleToLength[vel, FromInt[MAX_SPEED]]
       ELSE vel
    ][VScale[v, FRICTION]]

\* newpos = self.pos + self.vel * dt
CarStep(pos, v, t) == VAdd[pos, VScale[v, t]]

\* mutant of CarBounce: the loop has no break and bounces once for every
\* building car_rect overlaps
RECURSIVE CarBounceNoBreak(_, _, _, _, _, _, _)
CarBounceNoBreak(pos, v, newpos, car_rect, t, bs, i) ==
    IF i > Len(bs) THEN [vel |-> v, newpos |-> newpos]
    ELSE IF colliderect[car_rect, bs[i]]
    THEN [vel \in Vec |->
            [np \in Vec |-> CarBounceNoBreak(pos, vel, np, car_rect, t, bs, i + 1)
            ][CarStep(pos, vel, t)]
         ][VScale[v, BOUNCE]]
    ELSE CarBounceNoBreak(pos, v, newpos, car_rect, t, bs, i + 1)

\* the loop "for b in buildings" of Car.update from building i on: at the
\* first building car_rect overlaps, vel *= -0.35, newpos = pos + vel * dt,
\* break
RECURSIVE CarBounce(_, _, _, _, _, _, _)
CarBounce(pos, v, newpos, car_rect, t, bs, i) ==
    IF i > Len(bs) THEN [vel |-> v, newpos |-> newpos]
    ELSE IF colliderect[car_rect, bs[i]]
    THEN [vel \in Vec |-> [vel |-> vel, newpos |-> CarStep(pos, vel, t)]][VScale[v, BOUNCE]]
    ELSE CarBounce(pos, v, newpos, car_rect, t, bs, i + 1)

\* Car.update(dt, keys, buildings): the car afterwards; inp is the velocity
\* and heading after the driver input, vel the velocity after friction,
\* newpos the candidate position, car_rect the rectangle centred on it and b
\* the velocity and candidate position the loop over the buildings leaves;
\* self.pos = Vector2(clamp(newpos.x, 0, WORLD_W), clamp(newpos.y, 0, WORLD_H))
CarUpdate(c, t, ks, bs) ==
    [inp \in [vel : Vec, angle : Double] |->
       [vel \in Vec |->
          [newpos \in Vec |->
             [car_rect \in Rects |->
                [b \in [vel : Vec, newpos : Vec] |->
                   [c EXCEPT !.vel = b.vel, !.angle = inp.angle,
                             !.pos = ClampWorld(b.newpos)]
                ][CarBounce(c.pos, vel, newpos, car_rect, t, bs, 1)]
             ][CenteredRect[newpos, CAR_W, CAR_H]]
          ][CarStep(c.pos, vel, t)]
       ][CarFriction(inp.vel)]
    ][CarInput(c, t, ks)]

(***************************************************************************)
(* NPC                                                                     *)
(***************************************************************************)
\* Vector2(random.uniform(-1,1), random.uniform(-1,1)), replaced by (1, 0)
\* if its length is 0, and normalised
WanderDir[raw \in Vec] ==
    IF Length[raw] = Zero THEN Normalize[V[1, 0]] ELSE Normalize[raw]

\* newpos = self.pos + self.dir * self.speed * dt
NPCStep(pos, dir, speed, t) == VAdd[pos, VScale[VScale[dir, speed], t]]

\* mutant of NPCUpdate: the timer runs out only below zero (timer < 0)
NPCUpdateStrictExpiry(n, t, bs, draw) ==
    [timer \in Double |->
       [dir \in Vec |->
          [newpos \in Vec |->
             [n EXCEPT !.timer = IF FLess[timer, Zero] THEN draw.timer ELSE timer,
                       !.dir = dir,
                       !.pos = ClampWorld(IF CollidesAny[CenteredRect[newpos, NPC_SIZE, NPC_SIZE], bs]
                                          THEN n.pos ELSE newpos)]
          ][NPCStep(n.pos, dir, n.speed, t)]
       ][IF FLess[timer, Zero] THEN WanderDir[draw.raw] ELSE n.dir]
    ][FSub[n.timer, t]]

\* NPC.update(dt, buildings): the NPC afterwards; draw holds the values the
\* random module returns if the timer has run out (draw.timer, draw.raw);
\* timer is self.timer after "self.timer -= dt", dir and newpos the
\* direction and the candidate position
NPCUpdate(n, t, bs, draw) ==
    [timer \in Double |->
       [dir \in Vec |->
          [newpos \in Vec |->
             [n EXCEPT !.timer = IF FLessEq[timer, Zero] THEN draw.timer ELSE timer,
                       !.dir = dir,
                       !.pos = ClampWorld(IF CollidesAny[CenteredRect[newpos, NPC_SIZE, NPC_SIZE], bs]
                                          THEN n.pos ELSE newpos)]
          ][NPCStep(n.pos, dir, n.speed, t)]
       ][IF FLessEq[timer, Zero] THEN WanderDir[draw.raw] ELSE n.dir]
    ][FSub[n.timer, t]]

(***************************************************************************)
(* main: enter / exit, boost, marker                                       *)
(***************************************************************************)
\* car.pos + Vector2(cos(radians(angle + side)) * 70, sin(radians(angle + side)) * 70)
\* for side = 90 (right) or -90 (left)
ExitPos(c, side) ==
    VAdd[c.pos, VScale[Forward[FAdd[c.angle, FromInt[side]]], FromInt[EXIT_OFFSET]]]

\* mutant of ChosenExit: the right side is taken without the blocked test
ChosenExitRightOnly(c, bs) == ExitPos(c, 90)

\* the exit position main chooses: exit_pos on the right side, and "if
\* blocked:" the left side
ChosenExit(c, bs) ==
    [exit_pos \in Vec |->
       IF CollidesAny[CenteredRect[exit_pos, PLAYER_SIZE, PLAYER_SIZE], bs]
       THEN ExitPos(c, -90)
       ELSE exit_pos
    ][ExitPos(c, 90)]

\* the precondition of entering the car
CanEnter(p, c) == p.in_car = "None" /\ DistLess(p.pos, c.pos, ENTER_RADIUS)

\* mutant of InteractResult: entering sets player.in_car and forgets car.driver
InteractResultHalfLink(p, c, bs, pressed) ==
    IF ~pressed THEN <<p, c>>
    ELSE IF CanEnter(p, c)
    THEN <<[p EXCEPT !.in_car = "car", !.pos = c.pos], c>>
    ELSE IF p.in_car = "car"
    THEN <<[p EXCEPT !.pos = ClampWorld(ChosenExit(c, bs)), !.in_car = "None"],
           [c EXCEPT !.driver = "None", !.vel = VScale[c.vel, EXIT_DAMP]]>>
    ELSE <<p, c>>

\* mutant of InteractResult: the exit offset is added to the player's own
\* position instead of the car's
InteractResultFromPlayer(p, c, bs, pressed) ==
    IF ~pressed THEN <<p, c>>
    ELSE IF CanEnter(p, c)
    THEN <<[p EXCEPT !.in_car = "car", !.pos = c.pos], [c EXCEPT !.driver = "player"]>>
    ELSE IF p.in_car = "car"
    THEN <<[p EXCEPT !.pos = ClampWorld(ChosenExit([c EXCEPT !.pos = p.pos], bs)),
                     !.in_car = "None"],
           [c EXCEPT !.driver = "None", !.vel = VScale[c.vel, EXIT_DAMP]]>>
    ELSE <<p, c>>

\* the "if e_pressed:" block of main: <<player, car>> afterwards
InteractResult(p, c, bs, pressed) ==
    IF ~pressed THEN <<p, c>>
    ELSE IF CanEnter(p, c)
    THEN <<[p EXCEPT !.in_car = "car", !.pos = c.pos], [c EXCEPT !.driver = "player"]>>
    ELSE IF p.in_car = "car"
    THEN <<[p EXCEPT !.pos = ClampWorld(ChosenExit(c, bs)), !.in_car = "None"],
           [c EXCEPT !.driver = "None", !.vel = VScale[c.vel, EXIT_DAMP]]>>
    ELSE <<p, c>>

\* konami_code
KonamiCode == <<"UP", "UP", "DOWN", "DOWN", "LEFT", "RIGHT", "LEFT", "RIGHT", "b", "a">>

\* mutant of LastN: the first n entries, s[:n]
LastNFromFront(s, n) == IF Len(s) <= n THEN s ELSE SubSeq(s, 1, n)

\* the last n entries of a list: s[-n:]
LastN(s, n) == IF Len(s) <= n THEN s ELSE SubSeq(s, Len(s) - n + 1, Len(s))

\* mutant of KonamiEvent: the mode follows the current match instead of
\* latching
KonamiEventMatchOnly(st, k) ==
    LET appended == Append(st.progress, k)
    IN  [progress |-> LastN(appended, Len(KonamiCode)),
         active   |-> LastN(appended, Len(KonamiCode)) = KonamiCode]

\* "Konami code detection" for one KEYDOWN of key k: append, compare the
\* last len(konami_code) entries, set konami_active on a match, trim
KonamiEvent(st, k) ==
    LET appended == Append(st.progress, k)
    IN  [progress |-> LastN(appended, Len(KonamiCode)),
         active   |-> (st.active \/ LastN(appended, Len(KonamiCode)) = KonamiCode)]

\* cam_target = car.pos if player.in_car else player.pos
CamTarget(p, c) == IF p.in_car # "None" THEN c.pos ELSE p.pos

\* dmarker = int(dist(cam_target, marker_pos)); dmarker < 100
MarkerReached(target, marker) == Trunc[Dist[target, marker]] < MARKER_RADIUS

(***************************************************************************)
(* Inputs and start-up draws                                               *)
(***************************************************************************)
\* values of CLOCK.tick(60), in ms: a 60 Hz frame and a long frame
DtSet == {16, 500}

\* sets of keys held during a tick
HeldSets == {{}, {"up", "right"}, {"down", "left"}, {"r"}}

\* keys whose KEYDOWN events arrive
EventKeys == {"e"}

\* joint outcomes of the two draws NPC.update makes when the timer runs out:
\* random.uniform(1.0, 4.0), and the vector of two random.uniform(-1, 1)
\* (the zero vector is the case the code replaces by +x).  uniform(a, b) is
\* a + (b - a) * random() with random() a multiple of 2^-53 below 1: the
\* values used are those of random() = 0, 0.5, 0.75, 0.25 and 0.125.
WanderDraws ==
    { [timer |-> FromInt[1], raw |-> <<Zero, Zero>>],
      [timer |-> Decimal[325, 100], raw |-> <<Decimal[5, 10], Decimal[-5, 10]>>],
      [timer |-> FromInt[1], raw |-> <<Decimal[-75, 100], Zero>>] }

\* mutant of MarkerXDraws: the draw ranges over the whole width
MarkerXDrawsNoInset == {0, WORLD_W}

\* values of random.randint(200, WORLD_W-200) and random.randint(200, WORLD_H-200)
MarkerXDraws == {MARKER_INSET, WORLD_W - MARKER_INSET}
MarkerYDraws == {MARKER_INSET, WORLD_H - MARKER_INSET}

R(x, y, w, h) == [x |-> x, y |-> y, w |-> w, h |-> h]

\* the nine buildings of the grid near the city centre
GridBuildings ==
    << R(890, 520, 150, 120), R(910, 740, 130, 160), R(900, 1040, 170, 110),
       R(1240, 480, 120, 180), R(1200, 770, 160, 100), R(1230, 1000, 140, 150),
       R(1550, 510, 180, 130), R(1520, 790, 125, 175), R(1560, 1025, 155, 105) >>

\* five of the six scattered buildings
ScatteredBuildings ==
    << R(1060, 200, 90, 100), R(1040, 430, 90, 80), R(2100, 1380, 100, 80),
       R(3000, 3000, 80, 80), R(5000, 500, 180, 180) >>

\* two outcomes of the building draws: the sixth scattered building is far
\* from the car, or right of the car's start position
LayoutA == GridBuildings \o ScatteredBuildings \o << R(4000, 2000, 100, 100) >>
LayoutB == GridBuildings \o ScatteredBuildings \o << R(435, 100, 80, 80) >>

\* an outcome in which two scattered buildings overlap each other, on the
\* car's way when it sets off with W and D held
LayoutC ==
    GridBuildings \o
    << R(1000, 300, 100, 100), R(1050, 340, 120, 120), R(2100, 1380, 100, 80),
       R(3000, 3000, 80, 80), R(5000, 500, 180, 180), R(4000, 2000, 100, 100) >>

\* outcomes of the NPC constructor's draws: position, speed
\* (random.uniform(30, 110) for random() = 0.875 and 0), direction
\* (normalised) and timer (random.uniform(1.0, 4.0) for random() = 0.75, 0)
NPCSpawns ==
    << [pos |-> V[100, 2000], speed |-> FromInt[100], dir |-> V[-1, 0],
        timer |-> Decimal[325, 100]],
       [pos |-> V[2150, 1475], speed |-> FromInt[30], dir |-> V[0, -1],
        timer |-> FromInt[1]] >>

\* outcomes of all start-up draws: buildings, player spawn, first NPC draw.
\* The spawns are 76.2 and exactly 80 units from the car, and 50 units from
\* the marker.
Worlds ==
    << [buildings |-> LayoutA, spawn |-> <<400, 100>>, npc |-> 0],
       [buildings |-> LayoutA, spawn |-> <<430, 110>>, npc |-> 1],
       [buildings |-> LayoutA, spawn |-> <<2150, 1600>>, npc |-> 1] >>

\* get_valid_spawn and the NPC spawn loop reject positions inside buildings
ValidSpawn(pos, size, bs) == ~CollidesAny[CenteredRect[pos, size, size], bs]

(***************************************************************************)
(* The main loop                                                           *)
(***************************************************************************)
\* the i-th NPC main() creates; an outcome w may name the timer the
\* constructor draws, random.uniform(1.0, 4.0), in ms
SpawnedNPC(w, i) ==
    LET n == NPCSpawns[((w.npc + i) % Len(NPCSpawns)) + 1]
    IN  IF "timer" \in DOMAIN w THEN [n EXCEPT !.timer = Secs[w.timer]] ELSE n

\* the state main() builds before its loop, for one outcome of the draws
Start(w) ==
    /\ buildings = w.buildings
    /\ player = [pos |-> V[w.spawn[1], w.spawn[2]], speed |-> FromInt[PLAYER_SPEED],
                 in_car |-> "None"]
    /\ car = [pos |-> V[430, 30], vel |-> V[0, 0], angle |-> Zero, driver |-> "None"]
    /\ npcs = [i \in 1..NumNPCs |-> SpawnedNPC(w, i)]
    /\ marker_pos = V[2200, 1600]
    /\ cam = V[0, 0]
    /\ dt = Zero
    /\ keys = {}
    /\ e_pressed = FALSE
    /\ konami_progress = <<>>
    /\ konami_active = FALSE
    /\ pc = "tick"
    /\ nev = 0
    /\ ticks = 0

\* every start-up outcome satisfies the rejection loops of main()
Init ==
    \E k \in 1..Len(Worlds) :
        /\ Start(Worlds[k])
        /\ ValidSpawn(player.pos, PLAYER_SIZE, Worlds[k].buildings)
        /\ \A i \in 1..Len(NPCSpawns) :
               ValidSpawn(NPCSpawns[i].pos, NPC_SIZE, Worlds[k].buildings)

\* dt = CLOCK.tick(60) / 1000.0; e_pressed = False
BeginTick(dts) ==
    /\ pc = "tick"
    /\ ticks < MaxTicks
    /\ \E ms \in dts : dt' = Secs[ms]
    /\ e_pressed' = FALSE
    /\ nev' = 0
    /\ pc' = "events"
    /\ UNCHANGED <<buildings, player, car, npcs, marker_pos, cam, keys,
                   konami_progress, konami_active, ticks>>

\* one KEYDOWN event of "for event in pygame.event.get()", in a tick whose
\* queue holds up to n events
EventsUpTo(n, evkeys) ==
    /\ pc = "events"
    /\ nev < n
    /\ \E k \in evkeys :
         LET st == KonamiEvent([progress |-> konami_progress, active |-> konami_active], k)
         IN  /\ e_pressed' = (e_pressed \/ k = "e")
             /\ konami_active' = st.active
             /\ konami_progress' = st.progress
    /\ nev' = nev + 1
    /\ UNCHANGED <<buildings, player, car, npcs, marker_pos, cam, dt, keys, pc, ticks>>

\* one KEYDOWN event, in a tick whose queue holds up to MaxEvents events
HandleEvent(evkeys) == EventsUpTo(MaxEvents, evkeys)

\* keys = pygame.key.get_pressed(), after the event queue is drained
GetPressed(helds) ==
    /\ pc = "events"
    /\ \E ks \in helds : keys' = ks
    /\ pc' = "interact"
    /\ UNCHANGED <<buildings, player, car, npcs, marker_pos, cam, dt, e_pressed,
                   konami_progress, konami_active, nev, ticks>>

\* mutant of Interact: level-triggered, the block also runs while E is held
InteractWhileHeld ==
    /\ pc = "interact"
    /\ \E r \in {InteractResult(player, car, buildings, e_pressed \/ "e" \in keys)} :
         player' = r[1] /\ car' = r[2]
    /\ pc' = "boost"
    /\ UNCHANGED <<buildings, npcs, marker_pos, cam, dt, keys, e_pressed,
                   konami_progress, konami_active, nev, ticks>>

\* "Handle enter/exit on KEYDOWN E"
Interact ==
    /\ pc = "interact"
    /\ \E r \in {InteractResult(player, car, buildings, e_pressed)} :
         player' = r[1] /\ car' = r[2]
    /\ pc' = "boost"
    /\ UNCHANGED <<buildings, npcs, marker_pos, cam, dt, keys, e_pressed,
                   konami_progress, konami_active, nev, ticks>>

\* "Konami effect": player.speed follows konami_active
Boost ==
    /\ pc = "boost"
    /\ player' = [player EXCEPT !.speed = IF konami_active THEN FromInt[BOOST_SPEED]
                                          ELSE FromInt[PLAYER_SPEED]]
    /\ pc' = "player"
    /\ UNCHANGED <<buildings, car, npcs, marker_pos, cam, dt, keys, e_pressed,
                   konami_progress, konami_active, nev, ticks>>

\* mutant of UpdatePlayer: the loop goes on to the NPCs and leaves out
\* car.update
UpdatePlayerSkipCar ==
    /\ pc = "player"
    /\ player' = PlayerUpdate(player, dt, keys, buildings)
    /\ pc' = "npcs"
    /\ UNCHANGED <<buildings, car, npcs, marker_pos, cam, dt, keys, e_pressed,
                   konami_progress, konami_active, nev, ticks>>

\* player.update(dt, keys, buildings)
UpdatePlayer ==
    /\ pc = "player"
    /\ player' = PlayerUpdate(player, dt, keys, buildings)
    /\ pc' = "car"
    /\ UNCHANGED <<buildings, car, npcs, marker_pos, cam, dt, keys, e_pressed,
                   konami_progress, konami_active, nev, ticks>>

\* car.update(dt, keys, buildings)
UpdateCar ==
    /\ pc = "car"
    /\ car' = CarUpdate(car, dt, keys, buildings)
    /\ pc' = "npcs"
    /\ UNCHANGED <<buildings, player, npcs, marker_pos, cam, dt, keys, e_pressed,
                   konami_progress, konami_active, nev, ticks>>

\* for n in npcs: n.update(dt, buildings)
UpdateNPCs ==
    /\ pc = "npcs"
    /\ \E draws \in [1..NumNPCs -> WanderDraws] :
         npcs' = [i \in 1..NumNPCs |-> NPCUpdate(npcs[i], dt, buildings, draws[i])]
    /\ pc' = "camera"
    /\ UNCHANGED <<buildings, player, car, marker_pos, cam, dt, keys, e_pressed,
                   konami_progress, konami_active, nev, ticks>>

\* cam_target = ...; cam.update(cam_target)
UpdateCamera ==
    /\ pc = "camera"
    /\ cam' = CameraUpdate(CamTarget(player, car))
    /\ pc' = "marker"
    /\ UNCHANGED <<buildings, player, car, npcs, marker_pos, dt, keys, e_pressed,
                   konami_progress, konami_active, nev, ticks>>

\* mutant of UpdateMarker: the test of R is not nested in the distance test
UpdateMarkerAnywhere ==
    /\ pc = "marker"
    /\ IF "r" \in keys
       THEN \E x \in MarkerXDraws, y \in MarkerYDraws : marker_pos' = V[x, y]
       ELSE marker_pos' = marker_pos
    /\ pc' = "tick"
    /\ ticks' = ticks + 1
    /\ UNCHANGED <<buildings, player, car, npcs, cam, dt, keys, e_pressed,
                   konami_progress, konami_active, nev>>

\* "marker distance + teleport", then the loop starts over
UpdateMarker ==
    /\ pc = "marker"
    /\ IF MarkerReached(CamTarget(player, car), marker_pos) /\ "r" \in keys
       THEN \E x \in MarkerXDraws, y \in MarkerYDraws : marker_pos' = V[x, y]
       ELSE marker_pos' = marker_pos
    /\ pc' = "tick"
    /\ ticks' = ticks + 1
    /\ UNCHANGED <<buildings, player, car, npcs, cam, dt, keys, e_pressed,
                   konami_progress, konami_active, nev>>

Next ==
    \/ BeginTick(DtSet)
    \/ HandleEvent(EventKeys)
    \/ GetPressed(HeldSets)
    \/ Interact
    \/ Boost
    \/ UpdatePlayer
    \/ UpdateCar
    \/ UpdateNPCs
    \/ UpdateCamera
    \/ UpdateMarker

Spec == Init /\ [][Next]_vars

(***************************************************************************)
(* Scenario specifications: the same loop under narrower inputs            *)
(***************************************************************************)
\* Enter/exit round trip: the player starts within 80 units of the standing
\* car, every tick receives a KEYDOWN E and no key is held.
NearCarSpawns == {<<400, 100>>, <<430, 100>>, <<460, 100>>}

RoundTripInit ==
    \E bs \in {LayoutA, LayoutB}, s \in NearCarSpawns :
        /\ Start([buildings |-> bs, spawn |-> s, npc |-> 0])
        /\ ValidSpawn(player.pos, PLAYER_SIZE, bs)
        /\ CanEnter(player, car)

RoundTripNext ==
    \/ BeginTick(DtSet)
    \/ HandleEvent({"e"})
    \/ (e_pressed /\ GetPressed({{}}))
    \/ Interact
    \/ Boost
    \/ UpdatePlayer
    \/ UpdateCar
    \/ UpdateNPCs
    \/ UpdateCamera
    \/ UpdateMarker

RoundTripSpec == RoundTripInit /\ [][RoundTripNext]_vars

\* Camera.update near the world's edges: the player is spawned at the least
\* or the greatest position get_valid_spawn can draw, or mid-world, and
\* stands or walks toward a corner of the world through 16 ms frames and
\* frames stalled for two seconds; from (5000, 3000) the third stalled
\* frame ends in the corner (6000, 4000).
CamSpawns == {<<100, 100>>, <<3000, 2000>>, <<WORLD_W - 1000, WORLD_H - 1000>>}

CameraInit ==
    \E p \in CamSpawns :
        /\ Start([buildings |-> LayoutA, spawn |-> p, npc |-> 0])
        /\ ValidSpawn(player.pos, PLAYER_SIZE, LayoutA)

CameraNext ==
    \/ BeginTick({16, 2000})
    \/ GetPressed({{}, {"up", "left"}, {"down", "right"}})
    \/ Interact
    \/ Boost
    \/ UpdatePlayer
    \/ UpdateCar
    \/ UpdateNPCs
    \/ UpdateCamera
    \/ UpdateMarker

CameraSpec == CameraInit /\ [][CameraNext]_vars

\* NPC.update on chosen draws of the constructor's timer (in ms) and chosen
\* frame times: a timer of 1.0 runs out to exactly 0 in a frame of one
\* second or in two of 500 ms; one of 1.016 is left above 0, by rounding,
\* after a frame of one second and one of 16 ms.
WanderTimers == {1000, 1016, 3250}
WanderDts == {16, 500, 1000}

WanderInit ==
    \E t \in WanderTimers, k \in {0, 1} :
        Start([buildings |-> LayoutA, spawn |-> <<400, 100>>, npc |-> k, timer |-> t])

WanderNext ==
    \/ BeginTick(WanderDts)
    \/ GetPressed({{}})
    \/ Interact
    \/ Boost
    \/ UpdatePlayer
    \/ UpdateCar
    \/ UpdateNPCs
    \/ UpdateCamera
    \/ UpdateMarker

WanderSpec == WanderInit /\ [][WanderNext]_vars

\* Driving: the player starts within 80 units of the car, KEYDOWN E events
\* arrive, and W and D, or S and A, or no keys are held.
DriveInit ==
    \E bs \in {LayoutA, LayoutC} :
        /\ Start([buildings |-> bs, spawn |-> <<400, 100>>, npc |-> 0])
        /\ ValidSpawn(player.pos, PLAYER_SIZE, bs)

DriveNext ==
    \/ BeginTick(DtSet)
    \/ HandleEvent({"e"})
    \/ GetPressed({{}, {"up", "right"}, {"down", "left"}})
    \/ Interact
    \/ Boost
    \/ UpdatePlayer
    \/ UpdateCar
    \/ UpdateNPCs
    \/ UpdateCamera
    \/ UpdateMarker

DriveSpec == DriveInit /\ [][DriveNext]_vars

\* Walking: the player starts below the lower left corner of the building
\* Rect(2100,1380,100,80) or 100 units from the world's upper edge, and
\* walks up and right, or down and left, or stands; the NPC starts far from
\* any building or right below that building, heading up.
WalkSpawns == {<<2090, 1480>>, <<400, 100>>}

WalkInit ==
    \E p \in WalkSpawns, k \in {0, 1} :
        /\ Start([buildings |-> LayoutA, spawn |-> p, npc |-> k])
        /\ ValidSpawn(player.pos, PLAYER_SIZE, LayoutA)
        /\ \A i \in 1..NumNPCs : ValidSpawn(npcs[i].pos, NPC_SIZE, LayoutA)

WalkNext ==
    \/ BeginTick(DtSet)
    \/ GetPressed({{}, {"up", "right"}, {"down", "left"}})
    \/ Interact
    \/ Boost
    \/ UpdatePlayer
    \/ UpdateCar
    \/ UpdateNPCs
    \/ UpdateCamera
    \/ UpdateMarker

WalkSpec == WalkInit /\ [][WalkNext]_vars

\* Repeated and held interact presses: the player starts within 80 units of
\* the car; a tick receives up to MaxInteractEvents KEYDOWN E events, and E
\* (alone or with W) may be held down across ticks.
InteractInit == Start([buildings |-> LayoutA, spawn |-> <<400, 100>>, npc |-> 0])

InteractNext ==
    \/ BeginTick(DtSet)
    \/ EventsUpTo(MaxInteractEvents, {"e"})
    \/ GetPressed({{}, {"e"}, {"e", "up"}})
    \/ Interact
    \/ Boost
    \/ UpdatePlayer
    \/ UpdateCar
    \/ UpdateNPCs
    \/ UpdateCamera
    \/ UpdateMarker

InteractSpec == InteractInit /\ [][InteractNext]_vars

\* Reaching the marker: the player is spawned within 80 units of the car
\* and drives to the marker, turning right for 240 ms with W held, holding
\* W through a frame stalled for two seconds and again for 550 ms, which
\* brings the car to about (2214, 1566); or the player is spawned exactly
\* 100 units below the marker and walks up.  R is held with W or not;
\* KEYDOWN E events arrive in the first tick only; the NPC's first timer is
\* 3.25 s.
MarkerSpawns == {<<400, 100>>, <<2200, 1700>>}

MarkerInit ==
    \E p \in MarkerSpawns :
        /\ Start([buildings |-> LayoutA, spawn |-> p, npc |-> 0, timer |-> 3250])
        /\ ValidSpawn(player.pos, PLAYER_SIZE, LayoutA)

MarkerNext ==
    \/ BeginTick({240, 550, 2000})
    \/ (ticks = 0 /\ HandleEvent({"e"}))
    \/ GetPressed({{"up", "right"}, {"up"}, {"up", "r"}})
    \/ Interact
    \/ Boost
    \/ UpdatePlayer
    \/ UpdateCar
    \/ UpdateNPCs
    \/ UpdateCamera
    \/ UpdateMarker

MarkerSpec == MarkerInit /\ [][MarkerNext]_vars

\* The input-sequence matcher: the user types the code, over and over,
\* and may hit E before its first key or after its fifth and then go on
\* where the code was left; up to MaxKonamiEvents KEYDOWN events arrive in
\* a tick (frames of 500 ms) while D is held.
\* The number of keys of the code the user has typed: the longest proper
\* prefix of the code that ends the retained history, E left out.
KonamiTyped ==
    LET h == SelectSeq(konami_progress, LAMBDA k : k # "e")
        fits(n) == n <= Len(h) /\ SubSeq(h, Len(h) - n + 1, Len(h)) = SubSeq(KonamiCode, 1, n)
        ns == {n \in 0..(Len(KonamiCode) - 1) : fits(n)}
    IN  CHOOSE n \in ns : \A m \in ns : m <= n

\* the keys the user may hit next
KonamiKeys ==
    {KonamiCode[KonamiTyped + 1]}
      \cup (IF KonamiTyped \in {0, 5} /\ \A i \in 1..Len(konami_progress) : konami_progress[i] # "e"
            THEN {"e"} ELSE {})

KonamiInit == Start([buildings |-> LayoutA, spawn |-> <<400, 100>>, npc |-> 0])

KonamiNext ==
    \/ BeginTick({500})
    \/ EventsUpTo(MaxKonamiEvents, KonamiKeys)
    \/ GetPressed({{"right"}})
    \/ Interact
    \/ Boost
    \/ UpdatePlayer
    \/ UpdateCar
    \/ UpdateNPCs
    \/ UpdateCamera
    \/ UpdateMarker

KonamiSpec == KonamiInit /\ [][KonamiNext]_vars

(***************************************************************************)
(* Properties                                                              *)
(***************************************************************************)
OnFoot == player.in_car = "None"
Driving == player.in_car = "car"

PlayerRect == CenteredRect[player.pos, PLAYER_SIZE, PLAYER_SIZE]
NPCRect(i) == CenteredRect[npcs[i].pos, NPC_SIZE, NPC_SIZE]

InWorld(p) ==
    /\ FLessEq[Zero, p[1]] /\ FLessEq[p[1], FromInt[WORLD_W]]
    /\ FLessEq[Zero, p[2]] /\ FLessEq[p[2], FromInt[WORLD_H]]

\* the band within which a normalised vector counts as a unit vector: a
\* millionth (the epsilon of pygame's Vector2.is_normalized)
Slack == Decimal[1, 1000000]

\* the excess over a stated length that the rounding of the doubles can
\* leave: 1e-9 of a unit (a unit in the last place of 900 is 1.1e-13, of a
\* coordinate near 6000 it is 9.1e-13)
Rounding == Decimal[1, 1000000000]

\* C1: possession link symmetry.  In every state of the main loop the player
\* is in the car exactly if the car's driver is the player; the link is
\* never set on one side only.
C1_LinkSymmetry == (player.in_car = "car") <=> (car.driver = "player")

\* C1 witness: the interact block has just linked the player and the car.
C1_Witness == pc = "boost" /\ e_pressed /\ player.in_car = "car" /\ car.driver = "player"

\* C2: no pedestrian overlaps a building after a tick.  Stated as the claim
\* has it: at the head of the loop neither the player's rectangle nor any
\* NPC's rectangle overlaps a building.
C2_NoPenetration ==
    pc = "tick" =>
        /\ ~CollidesAny[PlayerRect, buildings]
        /\ \A i \in 1..NumNPCs : ~CollidesAny[NPCRect(i), buildings]

\* C3: bounds.  After every tick the player, the car and every NPC are
\* inside [0, WORLD_W] x [0, WORLD_H].
C3_Bounds ==
    pc = "tick" =>
        /\ InWorld(player.pos)
        /\ InWorld(car.pos)
        /\ \A i \in 1..NumNPCs : InWorld(npcs[i].pos)

\* C3 witness: a tick has ended with the player on foot on the world's upper
\* edge, where only the clamp can have put it (it spawns at y >= 100).
C3_Witness == pc = "tick" /\ ticks > 0 /\ OnFoot /\ player.pos[2] = Zero

\* C4 as stated: the car's speed, vel.length(), is at most max_speed (900)
\* in every state.  Violated: Vector2.scale_to_length(900) multiplies both
\* coordinates by the rounded quotient 900 / length, and the length of the
\* result, computed again, can be 900.0000000000001, the next double above
\* 900, which the test of Car.update (length > max_speed) counts as faster
\* than max_speed.
C4_SpeedClampExact == FLessEq[Length[car.vel], FromInt[MAX_SPEED]]

\* C4: speed clamp, amended.  The car's speed, vel.length(), exceeds
\* max_speed by no more than the rounding of scale_to_length (it is at most
\* 900 + 1e-9) after Car.update and in every later state up to the next
\* update, whatever the inputs, collisions, transitions and dt.
C4_SpeedClamp == FLessEq[Length[car.vel], FAdd[FromInt[MAX_SPEED], Rounding]]

\* C4 witness: Car.update has just cut the speed of the driven car back to
\* max_speed.
C4_Witness ==
    /\ pc = "npcs" /\ Driving
    /\ FLessEq[FSub[FromInt[MAX_SPEED], Rounding], Length[car.vel]]

\* the point 70 units from the car along heading + side, written out
C5_Side(side) ==
    <<FAdd[car.pos[1], FMul[Cos[Radians[FAdd[car.angle, FromInt[side]]]], FromInt[70]]],
      FAdd[car.pos[2], FMul[Sin[Radians[FAdd[car.angle, FromInt[side]]]], FromInt[70]]]>>

\* the side the exit takes: heading + 90 unless its rectangle is blocked
C5_ExitPoint ==
    IF \E i \in 1..Len(buildings) :
           colliderect[CenteredRect[C5_Side(90), PLAYER_SIZE, PLAYER_SIZE], buildings[i]]
    THEN C5_Side(-90)
    ELSE C5_Side(90)

\* C5 as stated: after two interact presses in consecutive ticks, from on
\* foot within 80 units of the standing car and with no key held, the
\* player is on foot, the car has no driver, and the player is exactly 70
\* units from the car along heading + 90 (heading - 90 if that is blocked).
C5_RoundTripUnclamped ==
    (pc = "tick" /\ ticks = 2) =>
        /\ player.in_car = "None"
        /\ car.driver = "None"
        /\ player.pos = C5_ExitPoint

\* C5 amended: ... and the player is at that point clamped into the world.
C5_RoundTrip ==
    (pc = "tick" /\ ticks = 2) =>
        /\ player.in_car = "None"
        /\ car.driver = "None"
        /\ player.pos = <<clamp[C5_ExitPoint[1], Zero, FromInt[WORLD_W]],
                          clamp[C5_ExitPoint[2], Zero, FromInt[WORLD_H]]>>

\* C5 witness: a round trip has ended 70 units to the right of the car.
C5_Witness ==
    /\ pc = "tick" /\ ticks = 2 /\ player.in_car = "None"
    /\ car.pos = V[430, 30] /\ player.pos = V[430, 100]

\* the player is on foot and 80 units or more from the car
C6_OutOfReach ==
    /\ player.in_car = "None"
    /\ FLessEq[FromInt[80], Dist[player.pos, car.pos]]

\* C6: an interact press while the player is on foot and 80 units or more
\* from the car changes neither the player nor the car (in_car, driver,
\* positions, velocity, heading).
C6_InteractNoOp ==
    [][(pc = "interact" /\ e_pressed /\ C6_OutOfReach) => (player' = player /\ car' = car)]_vars

\* C6 witness: the interact block has run on a press made exactly 80 units
\* from the car and the player is still on foot.
C6_Witness ==
    /\ pc = "boost" /\ e_pressed /\ player.in_car = "None"
    /\ player.pos = V[430, 110] /\ car.pos = V[430, 30]

\* C7: Player.update with no movement key held leaves the position of an
\* on-foot player inside the world unchanged, on every call.
C7_ZeroIntent ==
    [][(/\ pc = "player"
        /\ player.in_car = "None"
        /\ keys \cap {"up", "down", "left", "right"} = {}
        /\ InWorld(player.pos))
       => player'.pos = player.pos]_vars

\* C7 witness: Player.update has run with no key held, in a second or later
\* tick, on a player on foot.
C7_Witness == pc = "car" /\ ticks >= 1 /\ player.in_car = "None" /\ keys = {}

\* C8: after Camera.update the offset is, on each axis, target - viewport/2
\* cut to [0, world - viewport]; targets x = 0, 6000, 3000 give 0, 4720,
\* 2360; the offset is within those limits in every state.
C8_CameraClamp ==
    LET t  == IF player.in_car = "car" THEN car.pos ELSE player.pos
        ex == IF FLessEq[t[1], FromInt[640]] THEN Zero
              ELSE IF FLessEq[FromInt[5360], t[1]] THEN FromInt[4720]
              ELSE FSub[t[1], FromInt[640]]
        ey == IF FLessEq[t[2], FromInt[360]] THEN Zero
              ELSE IF FLessEq[FromInt[3640], t[2]] THEN FromInt[3280]
              ELSE FSub[t[2], FromInt[360]]
    IN  /\ pc = "marker" =>
              /\ cam = <<ex, ey>>
              /\ (t[1] = Zero => cam[1] = Zero)
              /\ (t[1] = FromInt[6000] => cam[1] = FromInt[4720])
              /\ (t[1] = FromInt[3000] => cam[1] = FromInt[2360])
        /\ FLessEq[Zero, cam[1]] /\ FLessEq[cam[1], FromInt[WORLD_W - 1280]]
        /\ FLessEq[Zero, cam[2]] /\ FLessEq[cam[2], FromInt[WORLD_H - 720]]

\* C8 witness: the camera has been updated on a target at x = 6000.
C8_Witness ==
    /\ pc = "marker" /\ player.in_car = "None"
    /\ player.pos[1] = FromInt[6000] /\ cam[1] = FromInt[4720]

\* C9: the marker is always inside [200, WORLD_W-200] x [200, WORLD_H-200].
C9_MarkerInset ==
    /\ FLessEq[FromInt[200], marker_pos[1]] /\ FLessEq[marker_pos[1], FromInt[WORLD_W - 200]]
    /\ FLessEq[FromInt[200], marker_pos[2]] /\ FLessEq[marker_pos[2], FromInt[WORLD_H - 200]]

\* C9 witness: the marker has been relocated (it starts at (2200, 1600)).
C9_Witness == pc = "tick" /\ marker_pos # V[2200, 1600]

\* a unit vector: its length() is 1 to within the rounding of the doubles
C10_Unit(d) ==
    /\ FLessEq[FSub[FromInt[1], Slack], Length[d]]
    /\ FLessEq[Length[d], FAdd[FromInt[1], Slack]]

\* C10: an NPC.update whose timer minus dt is <= 0 leaves a unit direction
\* and a timer in [1.0, 4.0] s; any other update keeps the direction and
\* lowers the timer by dt.
C10_WanderTimer ==
    [][pc = "npcs" =>
         \A i \in 1..NumNPCs :
            IF FLessEq[FSub[npcs[i].timer, dt], Zero]
            THEN /\ C10_Unit(npcs'[i].dir)
                 /\ FLessEq[FromInt[1], npcs'[i].timer]
                 /\ FLessEq[npcs'[i].timer, FromInt[4]]
            ELSE /\ npcs'[i].dir = npcs[i].dir
                 /\ npcs'[i].timer = FSub[npcs[i].timer, dt]]_vars

\* C10 witness: the first update, with dt = 1 s on a timer of 1 s (timer
\* minus dt exactly 0), has drawn a new timer and the default direction +x.
C10_Witness ==
    /\ pc = "camera" /\ ticks = 0 /\ dt = FromInt[1]
    /\ npcs[1].timer = FromInt[1] /\ npcs[1].dir = V[1, 0]

\* C11: while the player possesses the car its position is synced to the
\* vehicle.  At the end of every tick in which player.in_car is the car,
\* player.pos equals car.pos.
C11_PositionSynced == (pc = "tick" /\ Driving) => player.pos = car.pos

\* C12: boost mode has no deactivation path and sets the walking speed.
\* No step of the loop turns konami_active from true to false, whatever keys
\* arrive, and whenever Player.update is about to run player.speed is 1200
\* if konami_active and 300 if not.
C12_BoostLatched ==
    [][/\ (konami_active => konami_active')
       /\ (pc = "player" =>
             player.speed = IF konami_active THEN FromInt[1200] ELSE FromInt[300])]_vars

\* C12 witness: boost mode is on, further KEYDOWN events have arrived since
\* (the history no longer ends with the code), and Player.update has just
\* run at speed 1200 in a second or later tick.
C12_Witness ==
    /\ pc = "car" /\ ticks >= 1 /\ konami_active
    /\ konami_progress # KonamiCode /\ nev > 0
    /\ player.speed = FromInt[1200]

\* the steps of a tick follow one another in the given order, and the camera
\* is updated on the car's position if driving, else on the player's
C13_Order(order) ==
    /\ \A i \in 1..(Len(order) - 1) : pc = order[i] => pc' = order[i + 1]
    /\ pc = "camera" =>
         cam' = CameraUpdate(IF player.in_car = "car" THEN car.pos ELSE player.pos)

\* C13 as stated: within every tick the steps run in the order possession
\* check, vehicle update, player update, NPC updates, camera target and
\* camera update; the vehicle is updated before the player.
C13_VehicleFirst ==
    [][C13_Order(<<"interact", "boost", "car", "player", "npcs", "camera", "marker">>)]_vars

\* C13 amended: within every tick the steps run in the order possession
\* check, player update, vehicle update, NPC updates, camera target and
\* camera update; the player is updated before the vehicle.
C13_PlayerFirst ==
    [][C13_Order(<<"interact", "boost", "player", "car", "npcs", "camera", "marker">>)]_vars

\* C13 witness: in a later tick the player, on foot with a key held, has
\* been updated while the car, still rolling after the exit, has not.
C13_Witness ==
    /\ pc = "car" /\ ticks >= 1 /\ OnFoot
    /\ keys \cap {"up", "down", "left", "right"} # {}
    /\ car.vel # <<Zero, Zero>>

\* the buildings overlapped by the car's rectangle centred on p
C14_Overlapped(p) ==
    {i \in 1..Len(buildings) : colliderect[CenteredRect[p, CAR_W, CAR_H], buildings[i]]}

\* C14: single-pass collision response.  In every Car.update, with v the
\* velocity after input, friction and the speed cut and cand = pos + v * dt:
\* if the rectangle at cand overlaps a building, the velocity afterwards is
\* v * -0.35 (once, however many buildings it overlaps) and the position is
\* pos + that velocity * dt cut to the world, whether or not it overlaps a
\* building; otherwise the velocity is v and the position is cand, cut to
\* the world.
C14_SinglePass ==
    [][pc = "car" =>
         LET v    == CarFriction(CarInput(car, dt, keys).vel)
             cand == <<FAdd[car.pos[1], FMul[v[1], dt]], FAdd[car.pos[2], FMul[v[2], dt]]>>
             back == <<FMul[v[1], BOUNCE], FMul[v[2], BOUNCE]>>
             out  == <<FAdd[car.pos[1], FMul[back[1], dt]], FAdd[car.pos[2], FMul[back[2], dt]]>>
         IN  IF C14_Overlapped(cand) # {}
             THEN /\ car'.vel = back
                  /\ car'.pos = <<clamp[out[1], Zero, FromInt[WORLD_W]],
                                  clamp[out[2], Zero, FromInt[WORLD_H]]>>
             ELSE /\ car'.vel = v
                  /\ car'.pos = <<clamp[cand[1], Zero, FromInt[WORLD_W]],
                                  clamp[cand[2], Zero, FromInt[WORLD_H]]>>]_vars

\* C14 witness: Car.update has bounced the car off the two overlapping
\* buildings of LayoutC.  The car came from (774.75, 30) with W held; its
\* velocity now points up and left although the heading points down, and
\* the rectangle at the candidate (vel / -0.35 away for dt) overlaps both.
C14_Witness ==
    /\ pc = "npcs" /\ Driving /\ "up" \in keys /\ dt = Secs[500]
    /\ car.pos[2] = Zero /\ FLess[car.vel[1], Zero] /\ FLess[car.vel[2], Zero]
    /\ Cardinality(C14_Overlapped(
           <<FAdd[Decimal[77475, 100], FMul[FDiv[car.vel[1], BOUNCE], dt]],
             FAdd[FromInt[30], FMul[FDiv[car.vel[2], BOUNCE], dt]]>>)) = 2

\* C15: an undriven vehicle ignores input and coasts.  In every Car.update
\* with car.driver = None, whatever keys are held, the heading is unchanged,
\* the speed afterwards is no greater than before, and the car ends as it
\* would with no key held.
C15_Coasts ==
    [][(pc = "car" /\ car.driver = "None") =>
         /\ car'.angle = car.angle
         /\ FLessEq[Length[car'.vel], Length[car.vel]]
         /\ car' = CarUpdate(car, dt, {}, buildings)]_vars

\* C15 witness: Car.update has run on a rolling car without a driver while
\* W and D were held.
C15_Witness ==
    /\ pc = "npcs" /\ ticks >= 1 /\ car.driver = "None"
    /\ keys = {"up", "right"} /\ car.vel # <<Zero, Zero>>

\* the square of the given size centred on p overlaps a building
C16_Blocked(p, size) ==
    \E i \in 1..Len(buildings) : colliderect[CenteredRect[p, size, size], buildings[i]]

\* p cut to the world on each axis
C16_Clamped(p) ==
    <<clamp[p[1], Zero, FromInt[WORLD_W]], clamp[p[2], Zero, FromInt[WORLD_H]]>>

\* C16: all-or-nothing move rejection.  In Player.update on foot with a
\* movement key held, and in NPC.update, with cand the position plus
\* direction * speed * dt: if the rectangle at cand overlaps a building the
\* position is unchanged on both axes, otherwise it is cand; in both cases
\* cut to the world.
C16_AllOrNothing ==
    [][/\ (pc = "player" /\ OnFoot /\ KeyDir(keys) # <<Zero, Zero>>) =>
            LET cand == PlayerStep(player.pos, KeyDir(keys), player.speed, dt)
            IN  player'.pos = C16_Clamped(IF C16_Blocked(cand, PLAYER_SIZE)
                                          THEN player.pos ELSE cand)
       /\ pc = "npcs" =>
            \A i \in 1..NumNPCs :
               LET cand == NPCStep(npcs[i].pos, npcs'[i].dir, npcs[i].speed, dt)
               IN  npcs'[i].pos = C16_Clamped(IF C16_Blocked(cand, NPC_SIZE)
                                              THEN npcs[i].pos ELSE cand)]_vars

\* C16 witness: Player.update has rejected a move up and right whose x part
\* alone was free (the player still stands at its spawn left of the
\* building's corner), and then the NPC below the building has been refused
\* its move up as well.
C16_Witness ==
    /\ pc = "camera" /\ OnFoot /\ keys = {"up", "right"} /\ dt = Secs[500]
    /\ player.pos = V[2090, 1480]
    /\ LET cand == PlayerStep(player.pos, KeyDir(keys), player.speed, dt)
       IN  /\ ~C16_Blocked(<<cand[1], player.pos[2]>>, PLAYER_SIZE)
           /\ C16_Blocked(cand, PLAYER_SIZE)
    /\ npcs[1].pos = V[2150, 1475] /\ npcs[1].dir = V[0, -1]

\* C17: interact is edge-triggered and processed once per tick.  The
\* possession state (player.in_car, car.driver) changes only in the step of
\* the interact block, which a tick takes once, and only if the tick has
\* received at least one KEYDOWN E; a held E key alone changes nothing, and
\* the change is one transition, enter or exit, however many events came.
C17_EdgeTriggered ==
    [][/\ (player'.in_car # player.in_car \/ car'.driver # car.driver) =>
            /\ pc = "interact" /\ pc' = "boost"
            /\ e_pressed /\ nev >= 1
            /\ \/ (player.in_car = "None" /\ player'.in_car = "car")
               \/ (player.in_car = "car" /\ player'.in_car = "None")
       /\ (pc = "interact" /\ nev = 0) => ~e_pressed]_vars

\* C17 witness: in a tick that received two KEYDOWN E events while E was
\* held, and that began with the player driving, the interact block has
\* made the one transition to on foot.
C17_Witness ==
    /\ pc = "boost" /\ ticks >= 1 /\ nev = 2 /\ "e" \in keys
    /\ player.in_car = "None" /\ car.driver = "None"
    /\ player.pos = V[430, 100]

\* C18: the input-sequence matcher.  On every KEYDOWN event the retained
\* history becomes the most recent key-downs, the new key last, at most 10
\* of them (so it is the 10 most recent once 10 have arrived), a KEYDOWN E
\* is retained like any other key, and boost mode is active afterwards
\* exactly if it was active before or the retained history is, in order, UP
\* UP DOWN DOWN LEFT RIGHT LEFT RIGHT B A.
C18_Matcher ==
    [][(pc = "events" /\ nev' = nev + 1) =>
         LET n  == Len(konami_progress)
             m  == Len(konami_progress')
         IN  /\ m = IF n < 10 THEN n + 1 ELSE 10
             /\ \A i \in 1..(m - 1) : konami_progress'[m - i] = konami_progress[n + 1 - i]
             /\ (~e_pressed /\ e_pressed') => konami_progress'[m] = "e"
             /\ konami_active' <=>
                  \/ konami_active
                  \/ /\ m = 10
                     /\ konami_progress'[1] = "UP" /\ konami_progress'[2] = "UP"
                     /\ konami_progress'[3] = "DOWN" /\ konami_progress'[4] = "DOWN"
                     /\ konami_progress'[5] = "LEFT" /\ konami_progress'[6] = "RIGHT"
                     /\ konami_progress'[7] = "LEFT" /\ konami_progress'[8] = "RIGHT"
                     /\ konami_progress'[9] = "b" /\ konami_progress'[10] = "a"]_vars

\* C18 witness: in a second or later tick a KEYDOWN of A has just completed
\* the code and switched boost mode on (the walking speed has not followed
\* yet).
C18_Witness ==
    /\ pc = "events" /\ nev = 1 /\ ticks >= 1
    /\ konami_active /\ konami_progress = KonamiCode
    /\ player.speed = FromInt[PLAYER_SPEED]

\* C19: the marker relocation guard.  The marker position changes only in
\* the marker step of a tick, and only if R is held and the car's position
\* (if the player is driving, else the player's position), as left by that
\* tick's updates, is less than 100 units from the marker.
C19_RelocationGuard ==
    [][marker_pos' # marker_pos =>
         LET t == IF player.in_car = "car" THEN car.pos ELSE player.pos
         IN  /\ pc = "marker" /\ "r" \in keys
             /\ FLess[Dist[t, marker_pos], FromInt[100]]]_vars

\* C19 witness: the marker has been relocated in a tick that ended with the
\* player driving, the car near the marker's old place and the player's own
\* position still where the player got in, far from it.
C19_Witness ==
    /\ pc = "tick" /\ Driving /\ "r" \in keys
    /\ marker_pos # V[2200, 1600]
    /\ player.pos = V[430, 30]
    /\ FLess[Dist[car.pos, V[2200, 1600]], FromInt[100]]

\* C20 as stated: in the step of the interact block that takes the player
\* from driving to on foot, the player's new position is at most 70 units
\* from the car, within the interaction radius of 80, the car's position
\* and heading are unchanged and its velocity is multiplied by 0.6.
\* Violated in the first conjunct only: cos * 70, sin * 70 and their
\* addition to car.pos each round, and dist(player.pos, car.pos) can be
\* 70.00000000000001.
C20_ExitAtMost70 ==
    [][(pc = "interact" /\ player.in_car = "car" /\ player'.in_car = "None") =>
         /\ FLessEq[Dist[player'.pos, car'.pos], FromInt[EXIT_OFFSET]]
         /\ FLess[Dist[player'.pos, car'.pos], FromInt[ENTER_RADIUS]]
         /\ CanEnter(player', car')
         /\ car'.pos = car.pos
         /\ car'.angle = car.angle
         /\ car'.vel = <<FMul[car.vel[1], EXIT_DAMP], FMul[car.vel[2], EXIT_DAMP]>>]_vars

\* C20: exit never strands the player, amended.  In the step of the
\* interact block that takes the player from driving to on foot, the
\* player's new position exceeds 70 units from the car by no more than the
\* rounding of the doubles (dist is at most 70 + 1e-9), which is within the
\* interaction radius of 80 (so the player can enter again), the car's
\* position and heading are unchanged and its velocity is multiplied by 0.6.
C20_ExitInReach ==
    [][(pc = "interact" /\ player.in_car = "car" /\ player'.in_car = "None") =>
         /\ FLessEq[Dist[player'.pos, car'.pos], FAdd[FromInt[EXIT_OFFSET], Rounding]]
         /\ FLess[Dist[player'.pos, car'.pos], FromInt[ENTER_RADIUS]]
         /\ CanEnter(player', car')
         /\ car'.pos = car.pos
         /\ car'.angle = car.angle
         /\ car'.vel = <<FMul[car.vel[1], EXIT_DAMP], FMul[car.vel[2], EXIT_DAMP]>>]_vars

\* C20 witness: the player has just left a moving car on the world's upper
\* edge; the exit point was cut to the world and lies less than 70 units
\* from the car.
C20_Witness ==
    /\ pc = "boost" /\ e_pressed /\ OnFoot /\ car.driver = "None"
    /\ car.vel # <<Zero, Zero>>
    /\ player.pos[2] = Zero /\ player.pos # car.pos
    /\ FLess[Dist[player.pos, car.pos], FromInt[69]]

====
